---------------------------- MODULE Spec2Model ----------------------------
(***************************************************************************)
(* Message decision pipeline of the chatbot backend: the Decision Engine   *)
(* (app/decision_engine.py), the Flow Executor (app/flow_executor.py) and  *)
(* the flow editing routes (app/routes.py) that write the graph the        *)
(* executor walks.  Texts are sequences of one-character strings so that   *)
(* normalisation, substring tests and placeholder substitution are         *)
(* computed, not assumed.                                                  *)
(***************************************************************************)
EXTENDS Integers, Sequences, FiniteSets, TLC

VARIABLES
    flows,      \* ConversationFlow rows, in id order: [id, is_active]
    nodes,      \* FlowNode rows, in id order: [id, flow_id, node_type, position_y, config]
    conns,      \* NodeConnection rows, in id order: [id, source_node_id, target_node_id, priority]
    stats,      \* DecisionEngine.stats
    pc,         \* position of the get_response call in flight
    found,      \* flow_id returned by find_matching_flow in this call, 0 for None
    walk,       \* what the last execute_flow did: its outcome, its context, its return value
    flowRes,    \* what _try_flow_response returned in this call
    cfgRes,     \* what _try_configured_response returned in this call
    calls,      \* collaborator methods invoked by this call, in order
    result      \* what get_response returned (or the exception that left it)

VARIABLES
    settings,   \* Settings rows, in id order: [id, user_id, bot_name, bot_description]
    cache,      \* _bot_info_cache: cache key -> [data, timestamp], NoEntry for a missing key
    now,        \* time.time(), in seconds
    lookup,     \* the get_bot_info call just answered, NoLookup once another request ran
    identity,   \* the bot_info the chatbot route just resolved, NoIdentity likewise
    written     \* whether general_settings has committed a new bot_name

pipelineVars == <<flows, nodes, conns, stats, pc, found, walk, flowRes, cfgRes, calls, result>>

settingsVars == <<settings, cache, now, lookup, identity, written>>

VARIABLES
    default_messages,   \* DefaultMessage rows, in id order: [id, triggers, content]
    bot_responses,      \* BotResponses.query.first(): whether it exists, the keys of its essential_templates
    matched             \* the find_matching_response call just answered (with the scores of its loop), NotAsked once a table was written

responseVars == <<default_messages, bot_responses, matched>>

VARIABLES
    given,      \* a text given to normalize_text
    normalized  \* the results of normalize_text on it, then on each result in turn

textVars == <<given, normalized>>

VARIABLES
    reply,      \* the message of the LLM
    bot_info,   \* the bot_info given to the post-processing: name and description
    corrected   \* the post-processed message and the function that produced it

replyVars == <<reply, bot_info, corrected>>

VARIABLES
    api         \* the last make_api_call_with_user_keys: its arguments, what the provider
                \* did, what the adapter returned, what the call returned

apiVars == <<api>>

VARIABLES
    conversation_history,  \* session['conversation_history'] of one session: [exchange, response] per entry
    routed,  \* the /api/message requests that passed validation and authentication: how many, and how many were answered with each mode
    answered  \* the last response of /api/message: HTTP status, JSON body, and the history slice given to build_system_prompt

chatVars == <<conversation_history, routed, answered>>

VARIABLES
    responses_cache,  \* fast_responses_cache.responses_cache, its entries in insertion order: [trigger, id, content]
    cache_initialized,  \* fast_responses_cache.cache_initialized
    last_refresh,  \* fast_responses_cache.last_refresh
    clock,  \* time.time() as fast_responses_cache reads it, in seconds
    served  \* the last call of get_relevant_responses: its message and what it returned

cacheVars == <<responses_cache, cache_initialized, last_refresh, clock, served>>

VARIABLES
    built  \* the last call of ContextBuilder.build_system_prompt: its message, the prompts and the metadata it returned

promptVars == <<built>>

VARIABLES
    knowledge_base,  \* the FAQ, ResponseRule and Document tables, each in id order
    searched  \* the last call of KnowledgeIntegrator.search_knowledge: its query and what it returned

knowledgeVars == <<knowledge_base, searched>>

\* the state the flow editor and get_response neither read nor write
outsidePipeline == <<settingsVars, responseVars, textVars, replyVars, apiVars, chatVars, cacheVars, promptVars, knowledgeVars>>

outsideSettings == <<pipelineVars, responseVars, textVars, replyVars, apiVars, chatVars, cacheVars, promptVars, knowledgeVars>>

outsideResponses == <<pipelineVars, settingsVars, textVars, replyVars, apiVars, chatVars, cacheVars, promptVars, knowledgeVars>>

outsideText == <<pipelineVars, settingsVars, responseVars, replyVars, apiVars, chatVars, cacheVars, promptVars, knowledgeVars>>

outsideReply == <<pipelineVars, settingsVars, responseVars, textVars, apiVars, chatVars, cacheVars, promptVars, knowledgeVars>>

outsideApi == <<pipelineVars, settingsVars, responseVars, textVars, replyVars, chatVars, cacheVars, promptVars, knowledgeVars>>

outsideChat == <<pipelineVars, settingsVars, responseVars, textVars, replyVars, apiVars, cacheVars, promptVars, knowledgeVars>>

outsideCache == <<pipelineVars, settingsVars, responseVars, textVars, replyVars, apiVars, chatVars, promptVars, knowledgeVars>>

outsidePrompt == <<pipelineVars, settingsVars, responseVars, textVars, replyVars, apiVars, chatVars, cacheVars, knowledgeVars>>

outsideKnowledge == <<pipelineVars, settingsVars, responseVars, textVars, replyVars, apiVars, chatVars, cacheVars, promptVars>>

vars == <<pipelineVars, outsidePipeline>>

-----------------------------------------------------------------------------
(* Bounds of the model *)

MaxFlows == 1

MaxNodes == 2

MaxConns == 2

MaxRequests == 1

\* the flows of the specification of the flow editor alone
MaxEditorFlows == 2

\* the calls of _execute_from_node one walk is followed for
MaxCalls == 64

(* Program constant: the depth cap of _execute_from_node *)
MaxDepth == 50

-----------------------------------------------------------------------------
(* Texts *)

UpperChars == <<"A","B","C","D","E","F","G","H","I","J","K","L","M",
                "N","O","P","Q","R","S","T","U","V","W","X","Y","Z">>

LowerChars == <<"a","b","c","d","e","f","g","h","i","j","k","l","m",
                "n","o","p","q","r","s","t","u","v","w","x","y","z">>

Digits == {"0","1","2","3","4","5","6","7","8","9"}

(* Accented characters are named; each decomposes (NFKD) into a base       *)
(* letter and a combining mark.  "oelig" has no decomposition; "tm", the   *)
(* trade mark sign, has no lower case and decomposes into "TM".            *)
AccentedLower == {"eacute", "egrave", "ecirc", "agrave", "ocirc", "ccedil"}

AccentedUpper == {"Eacute"}

Whitespace == {" ", "tab", "nl"}

SeqRange(s) == {s[i] : i \in 1..Len(s)}

IndexOf(s, c) == CHOOSE i \in 1..Len(s) : s[i] = c

\* str.lower() on one character
LowerChar(c) ==
    IF c \in SeqRange(UpperChars) THEN LowerChars[IndexOf(UpperChars, c)]
    ELSE IF c = "Eacute" THEN "eacute"
    ELSE c

\* unicodedata.normalize('NFKD', c).encode('ASCII', 'ignore') on one character
AsciiFoldChar(c) ==
    IF c \in {"eacute", "egrave", "ecirc"} THEN <<"e">>
    ELSE IF c = "Eacute" THEN <<"E">>
    ELSE IF c = "agrave" THEN <<"a">>
    ELSE IF c = "ocirc" THEN <<"o">>
    ELSE IF c = "ccedil" THEN <<"c">>
    ELSE IF c = "oelig" THEN <<>>
    ELSE IF c = "tm" THEN <<"T", "M">>
    ELSE <<c>>

RECURSIVE AsciiFold(_)
AsciiFold(t) ==
    IF t = <<>> THEN <<>> ELSE AsciiFoldChar(Head(t)) \o AsciiFold(Tail(t))

\* re.sub(r'[^a-z0-9\s]', ' ', text)
ReplaceSpecial(t) ==
    [i \in 1..Len(t) |->
        IF t[i] \in SeqRange(LowerChars) \cup Digits \cup Whitespace
        THEN t[i] ELSE " "]

\* re.sub(r'\s+', ' ', text)
RECURSIVE CollapseSpaces(_)
CollapseSpaces(t) ==
    IF t = <<>> THEN <<>>
    ELSE IF Head(t) \in Whitespace
    THEN IF Len(t) > 1 /\ t[2] \in Whitespace
         THEN CollapseSpaces(Tail(t))
         ELSE <<" ">> \o CollapseSpaces(Tail(t))
    ELSE <<Head(t)>> \o CollapseSpaces(Tail(t))

\* str.strip()
RECURSIVE StripLeft(_)
StripLeft(t) ==
    IF t # <<>> /\ Head(t) \in Whitespace THEN StripLeft(Tail(t)) ELSE t

RECURSIVE StripRight(_)
StripRight(t) ==
    IF t # <<>> /\ t[Len(t)] \in Whitespace
    THEN StripRight(SubSeq(t, 1, Len(t) - 1)) ELSE t

Strip(t) == StripRight(StripLeft(t))

\* a normalisation that strips before it replaces the special characters
normalize_text_strip_first(t) ==
    IF t = <<>> THEN <<>>
    ELSE CollapseSpaces(ReplaceSpecial(Strip(AsciiFold(
            [i \in 1..Len(t) |-> LowerChar(t[i])]))))

normalize_text(t) ==
    IF t = <<>> THEN <<>>
    ELSE Strip(CollapseSpaces(ReplaceSpecial(AsciiFold(
            [i \in 1..Len(t) |-> LowerChar(t[i])]))))

\* Python's `sub in text`
Contains(sub, text) ==
    \E i \in 0..(Len(text) - Len(sub)) : SubSeq(text, i + 1, i + Len(sub)) = sub

(* The regular expressions of the model: a value made of letters, digits   *)
(* and spaces is a literal pattern; a value with an unbalanced "(" does    *)
(* not compile (re.error).                                                 *)
RegexCompiles(value) ==
    Cardinality({i \in 1..Len(value) : value[i] = "("})
        = Cardinality({i \in 1..Len(value) : value[i] = ")"})

\* re.search(value, text, re.IGNORECASE) for a literal pattern
RegexSearch(value, text) ==
    Contains([i \in 1..Len(value) |-> LowerChar(value[i])],
             [i \in 1..Len(text) |-> LowerChar(text[i])])

\* '\n'.join(parts)
RECURSIVE Join(_)
Join(parts) ==
    IF parts = <<>> THEN <<>>
    ELSE IF Len(parts) = 1 THEN parts[1]
    ELSE parts[1] \o <<"nl">> \o Join(Tail(parts))

\* \w of Python's re on str
IsWordChar(c) ==
    c \in SeqRange(LowerChars) \cup SeqRange(UpperChars) \cup Digits
          \cup AccentedLower \cup AccentedUpper \cup {"_", "oelig"}

RECURSIVE WordRun(_)
WordRun(t) ==
    IF t # <<>> /\ IsWordChar(Head(t)) THEN 1 + WordRun(Tail(t)) ELSE 0

\* list[-n:]
LastOf(list, n) ==
    IF Len(list) <= n THEN list ELSE SubSeq(list, Len(list) - n + 1, Len(list))

\* list[:n]
FirstOf(list, n) ==
    IF Len(list) <= n THEN list ELSE SubSeq(list, 1, n)

\* str.lower()
Lower(t) == [i \in 1..Len(t) |-> LowerChar(t[i])]

\* str.split(sep) for a separator of one character, empty parts included
RECURSIVE SplitAt(_, _)
SplitAt(t, seps) ==
    IF \A i \in 1..Len(t) : t[i] \notin seps THEN <<t>>
    ELSE LET i == CHOOSE k \in 1..Len(t) :
                      t[k] \in seps /\ \A j \in 1..(k - 1) : t[j] \notin seps
         IN  <<SubSeq(t, 1, i - 1)>> \o SplitAt(SubSeq(t, i + 1, Len(t)), seps)

\* set(text.split())
Words(t) == SeqRange(SplitAt(t, Whitespace)) \ {<<>>}

\* [t.strip() for t in response.triggers.split(',') if t.strip()]
TriggerList(triggers) ==
    LET parts == SplitAt(triggers, {","})
        stripped == [i \in 1..Len(parts) |-> Strip(parts[i])]
    IN  SelectSeq(stripped, LAMBDA t : t # <<>>)

(* Scores are Python floats; in the model they are exact fractions.  Within *)
(* the bounds of the model no two different fractions round to the same     *)
(* float and 0.5 is reached only as an exact float, so the comparisons      *)
(* agree.                                                                   *)
RECURSIVE GCD(_, _)
GCD(a, b) == IF b = 0 THEN a ELSE GCD(b, a % b)

Ratio(num, den) == [num |-> num \div GCD(num, den), den |-> den \div GCD(num, den)]

Plus(a, b) == Ratio(a.num * b.den + b.num * a.den, a.den * b.den)

DividedBy(a, n) == Ratio(a.num, a.den * n)

Greater(a, b) == a.num * b.den > b.num * a.den

Minimum(a, b) == IF Greater(a, b) THEN b ELSE a

Zero == Ratio(0, 1)

One == Ratio(1, 1)

Half == Ratio(1, 2)

-----------------------------------------------------------------------------
(* The texts the model draws its inputs from *)

MsgPrix == <<"q","u","e","l"," ","e","s","t"," ","l","e"," ","p","r","i","x"," ","?">>

MsgBonjour == <<"B","o","n","j","o","u","r">>

Messages == {MsgPrix, MsgBonjour}

LePrixEstX == <<"L","e"," ","p","r","i","x"," ","e","s","t"," ","X">>

Prix == <<"P","r","i","x">>

VarQ == <<"q">>

UserInput == <<"u","s","e","r","_","i","n","p","u","t">>

(* A node's config; a key the editor did not post reads as the default of   *)
(* the config.get(...) that reads it.                                       *)
Config(message, operator, value, variable) ==
    [message |-> message, operator |-> operator, value |-> value, variable |-> variable]

DefaultConfig == Config(<<>>, "equals", <<>>, UserInput)

(* What the flow editor posts to create_node: data['type'], data['config'] *)
NodeInputs ==
    { [node_type |-> "message",   config |-> Config(LePrixEstX, "equals", <<>>, UserInput)],
      [node_type |-> "condition", config |-> Config(<<>>, "contains", Prix, UserInput)],
      [node_type |-> "input",     config |-> Config(<<>>, "equals", <<>>, VarQ)],
      [node_type |-> "action",    config |-> DefaultConfig],
      [node_type |-> "api",       config |-> DefaultConfig] }

PositionYs == {0, 1}

Priorities == {0, 1}

-----------------------------------------------------------------------------
(* Database reads *)

NoRow == [id |-> 0]

\* Model.query.get(id)
GetRow(table, id) ==
    IF \E i \in 1..Len(table) : table[i].id = id
    THEN table[CHOOSE i \in 1..Len(table) : table[i].id = id]
    ELSE NoRow

\* the id a new row gets: one more than the largest id of the table
NextId(table) ==
    IF table = <<>> THEN 1
    ELSE 1 + (CHOOSE m \in SeqRange([i \in 1..Len(table) |-> table[i].id]) :
                 \A i \in 1..Len(table) : table[i].id <= m)

\* the flow_id of a node, 0 when there is no such node
FlowOf(node_id) ==
    IF GetRow(nodes, node_id).id = 0 THEN 0 ELSE GetRow(nodes, node_id).flow_id

\* the node_type of a node, "" when there is no such node
TypeOf(node_id) ==
    IF GetRow(nodes, node_id).id = 0 THEN "" ELSE GetRow(nodes, node_id).node_type

\* flow.nodes
FlowNodes(flow_id) == SelectSeq(nodes, LAMBDA n : n.flow_id = flow_id)

\* node.connections, and NodeConnection.query.filter_by(source_node_id=...).all():
\* no ORDER BY, the rows come in id order
NodeConnections(node_id) == SelectSeq(conns, LAMBDA c : c.source_node_id = node_id)

\* .order_by(NodeConnection.priority): ascending, rows of equal priority in id order
RECURSIVE OrderByPriority(_)
OrderByPriority(cs) ==
    IF cs = <<>> THEN <<>>
    ELSE LET i == CHOOSE k \in 1..Len(cs) :
                    /\ \A j \in 1..Len(cs) : cs[k].priority <= cs[j].priority
                    /\ \A j \in 1..(k - 1) : cs[j].priority > cs[k].priority
         IN  <<cs[i]>> \o OrderByPriority(SubSeq(cs, 1, i - 1) \o SubSeq(cs, i + 1, Len(cs)))

-----------------------------------------------------------------------------
(* Flow Executor *)

NewContext(user_message) ==
    [user_message |-> user_message, variables |-> <<>>,
     execution_path |-> <<>>, response_parts |-> <<>>]

\* has_active_flows: a failing query is caught and reads as False
has_active_flows(db_ok) ==
    db_ok /\ \E i \in 1..Len(flows) : flows[i].is_active

\* find_matching_flow: the first active flow, 0 for None
find_matching_flow(db_ok) ==
    LET active_flows == SelectSeq(flows, LAMBDA f : f.is_active)
    IN  IF ~db_ok \/ active_flows = <<>> THEN 0 ELSE active_flows[1].id

\* a start node taken by position: of the nodes without input, the topmost
find_start_node_topmost(flow_id) ==
    LET ns == FlowNodes(flow_id)
        node_ids_with_input ==
            {conns[i].target_node_id : i \in
                {j \in 1..Len(conns) :
                    \E k \in 1..Len(ns) : ns[k].id = conns[j].source_node_id}}
        without_input == SelectSeq(ns, LAMBDA n : n.id \notin node_ids_with_input)
        pool == IF without_input # <<>> THEN without_input ELSE ns
    IN  IF ns = <<>> THEN NoRow
        ELSE pool[CHOOSE k \in 1..Len(pool) :
                    /\ \A j \in 1..Len(pool) : pool[k].position_y <= pool[j].position_y
                    /\ \A j \in 1..(k - 1) : pool[j].position_y > pool[k].position_y]

find_start_node(flow_id) ==
    LET ns == FlowNodes(flow_id)
        node_ids_with_input ==
            {conns[i].target_node_id : i \in
                {j \in 1..Len(conns) :
                    \E k \in 1..Len(ns) : ns[k].id = conns[j].source_node_id}}
        without_input == SelectSeq(ns, LAMBDA n : n.id \notin node_ids_with_input)
    IN  IF ns = <<>> THEN NoRow
        ELSE IF without_input # <<>> THEN without_input[1]
        ELSE ns[CHOOSE k \in 1..Len(ns) :
                  /\ \A j \in 1..Len(ns) : ns[k].position_y <= ns[j].position_y
                  /\ \A j \in 1..(k - 1) : ns[j].position_y > ns[k].position_y]

evaluate_condition(text, operator, value) ==
    IF operator = "equals" THEN normalize_text(text) = normalize_text(value)
    ELSE IF operator = "contains" THEN Contains(normalize_text(value), normalize_text(text))
    ELSE IF operator = "regex" THEN RegexCompiles(value) /\ RegexSearch(value, text)
    ELSE FALSE

\* a substitution that drops the placeholder of a variable that is not set
RECURSIVE replace_variables_or_blank(_, _)
replace_variables_or_blank(text, variables) ==
    IF text = <<>> THEN <<>>
    ELSE LET k == WordRun(Tail(text))
         IN  IF Head(text) = "{" /\ k >= 1 /\ Len(text) >= k + 2 /\ text[k + 2] = "}"
             THEN LET var_name == SubSeq(text, 2, k + 1)
                      var_value == IF var_name \in DOMAIN variables
                                   THEN variables[var_name]
                                   ELSE <<>>
                  IN  var_value \o replace_variables_or_blank(SubSeq(text, k + 3, Len(text)), variables)
             ELSE <<Head(text)>> \o replace_variables_or_blank(Tail(text), variables)

\* re.sub(r'\{(\w+)\}', replace_var, text)
RECURSIVE replace_variables(_, _)
replace_variables(text, variables) ==
    IF text = <<>> THEN <<>>
    ELSE LET k == WordRun(Tail(text))
         IN  IF Head(text) = "{" /\ k >= 1 /\ Len(text) >= k + 2 /\ text[k + 2] = "}"
             THEN LET var_name == SubSeq(text, 2, k + 1)
                      var_value == IF var_name \in DOMAIN variables
                                   THEN variables[var_name]
                                   ELSE SubSeq(text, 1, k + 2)
                  IN  var_value \o replace_variables(SubSeq(text, k + 3, Len(text)), variables)
             ELSE <<Head(text)>> \o replace_variables(Tail(text), variables)

execute_message_node(node, context) ==
    IF node.config.message # <<>>
    THEN [context EXCEPT !.response_parts =
            Append(@, replace_variables(node.config.message, context.variables))]
    ELSE context

execute_input_node(node, context) ==
    [context EXCEPT !.variables =
        [n \in (DOMAIN @) \cup {node.config.variable} |->
            IF n = node.config.variable THEN context.user_message ELSE @[n]]]

find_next_node(current_node) ==
    LET connections == OrderByPriority(NodeConnections(current_node.id))
    IN  IF connections = <<>> THEN NoRow
        ELSE GetRow(nodes, connections[1].target_node_id)

\* a cap that lets one more call through
DepthExceededLate(depth) == depth > MaxDepth + 1

\* `if depth > 50`
DepthExceeded(depth) == depth > MaxDepth

\* the connection a condition node follows when its condition is true
ConditionBranch(node) ==
    LET connections == NodeConnections(node.id)
    IN  IF connections = <<>> THEN NoRow
        ELSE GetRow(nodes, connections[1].target_node_id)

\* a condition node that follows its connection whatever the condition gives
FollowRegardless(node, context, depth) ==
    IF ConditionBranch(node).id # 0
    THEN [node |-> ConditionBranch(node), context |-> context,
          depth |-> depth + 1, returned |-> "no"]
    ELSE [node |-> NoRow, context |-> context, depth |-> depth, returned |-> "True"]

(* A call of _execute_from_node: the node it is called on, the context it  *)
(* shares with its caller, its depth.  Every recursive call is the caller's *)
(* `return`, so the value the outermost call returns is the value of the    *)
(* last call; `returned` is "no" while a call is still to be made, and the  *)
(* value returned after that.                                               *)
Call(node, context, depth) ==
    [node |-> node, context |-> context, depth |-> depth, returned |-> "no"]

Return(value, context, depth) ==
    [node |-> NoRow, context |-> context, depth |-> depth, returned |-> value]

execute_condition_node(node, context, depth) ==
    LET condition_result == evaluate_condition(context.user_message,
                                node.config.operator, node.config.value)
        next_node == ConditionBranch(node)
    IN  IF condition_result /\ next_node.id # 0
        THEN Call(next_node, context, depth + 1)
        ELSE Return("True", context, depth)

\* one call of _execute_from_node, up to the call it makes or its return
execute_from_node(call) ==
    LET node == call.node
        depth == call.depth
        visited == [call.context EXCEPT !.execution_path =
                       Append(@, [node_id |-> node.id, node_type |-> node.node_type])]
        after == IF node.node_type = "message" THEN execute_message_node(node, visited)
                 ELSE IF node.node_type = "input" THEN execute_input_node(node, visited)
                 ELSE visited
        next_node == find_next_node(node)
    IN  IF DepthExceeded(depth) THEN Return("False", call.context, depth)
        ELSE IF node.node_type = "condition"
        THEN execute_condition_node(node, visited, depth)
        ELSE IF next_node.id # 0 THEN Call(next_node, after, depth + 1)
        ELSE Return("True", after, depth)

\* the chain of calls, at most n of them, by halves
RECURSIVE Walk(_, _)
Walk(call, n) ==
    IF call.returned # "no" \/ n = 0 THEN call
    ELSE IF n = 1 THEN execute_from_node(call)
    ELSE Walk(Walk(call, n \div 2), n - (n \div 2))

NoneValue == [kind |-> "None"]

\* an execute_flow that does not look at is_active
NeverInactive(flow) == FALSE

\* `if not flow.is_active`
FlowInactive(flow) == ~flow.is_active

\* a walk whose parts are returned whether it succeeded or not
ReturnParts(flow_id, run) ==
    [outcome |-> IF run.returned = "True" THEN "executed" ELSE "failed",
     context |-> run.context,
     ret |-> [kind |-> "dict", flow_id |-> flow_id,
              content |-> Join(run.context.response_parts),
              execution_path |-> run.context.execution_path,
              variables |-> run.context.variables]]

(* the end of execute_flow: `if success: ... return {...}` and the          *)
(* `return None` after it.  A walk of more than MaxCalls calls has outcome  *)
(* "running".                                                               *)
ExecuteFlowReturn(flow_id, run) ==
    IF run.returned = "True"
    THEN [outcome |-> "executed", context |-> run.context,
          ret |-> [kind |-> "dict", flow_id |-> flow_id,
                   content |-> Join(run.context.response_parts),
                   execution_path |-> run.context.execution_path,
                   variables |-> run.context.variables]]
    ELSE IF run.returned = "False"
    THEN [outcome |-> "failed", context |-> run.context, ret |-> NoneValue]
    ELSE [outcome |-> "running", context |-> run.context, ret |-> NoneValue]

(* execute_flow: `outcome` names the return statement taken, `context` is   *)
(* the FlowExecutionContext as the call left it, `ret` the value returned.  *)
execute_flow(flow_id, user_message, db_ok) ==
    LET flow == GetRow(flows, flow_id)
        start_node == find_start_node(flow_id)
        nothing(why) == [outcome |-> why, context |-> NewContext(user_message),
                         ret |-> NoneValue]
    IN  IF ~db_ok THEN nothing("exception")
        ELSE IF flow.id = 0 THEN nothing("not_found")
        ELSE IF FlowInactive(flow) THEN nothing("inactive")
        ELSE IF start_node.id = 0 THEN nothing("no_start_node")
        ELSE ExecuteFlowReturn(flow_id,
                 Walk(Call(start_node, NewContext(user_message), 0), MaxCalls))

-----------------------------------------------------------------------------
(* Decision Engine *)

ExecuteFlow == "execute_flow"

FindMatchingResponse == "find_matching_response"

SearchKnowledge == "search_knowledge"

GenerateResponse == "generate_response"

ConfiguredContent == <<"Nous sommes ouverts 9h-18h">>

ApiText == <<"reponse du fournisseur">>

ConfiguredError == <<"general_error">>

DefaultFallback == <<"Desole, je n'ai pas compris votre message. Pouvez-vous reformuler ?">>

RetryMessage == <<"Desole, une erreur s'est produite. Veuillez reessayer.">>

(* What the collaborators may do when the engine calls them *)
HasConfiguredOutcomes == {"raise", "false", "true"}

FindResponseOutcomes == {"raise", "none", "empty_content", "content"}

ApiManagers == {"none", "bool_raises", "not_ready", "ready"}

KnowledgeOutcomes == {"raise", "no_knowledge", "has_knowledge"}

GenerateOutcomes == {"raise", "empty", "text"}

ErrorMessageOutcomes == {"raise", "empty", "message"}

Raised(what) == [kind |-> "raise", error |-> what]

\* the dict get_response returns
Answer(source, response, success, error) ==
    [kind |-> "dict", source |-> source, response |-> response,
     success |-> success, error |-> error]

\* a handler that lets the exception through
Reraise(e) == e

\* `except Exception as e:` of get_response
OnException(e) == Answer("error", RetryMessage, FALSE, e.error)

\* the `try` of get_response around the three stages and the fallback
GetResponseTry(body) == IF body.kind = "raise" THEN OnException(body) ELSE body

\* the tail of _try_flow_response: `if result and result.get('content')`
try_flow_response(ret) ==
    IF ret.kind = "dict" /\ ret.content # <<>> THEN ret ELSE NoneValue

\* a step 1 that never answers from the flow
FlowStageIgnored(flow_response) == NoneValue

\* `if flow_response: ... return {... 'source': 'flow' ...}`; None: go on
FlowStageReturn(flow_response) ==
    IF flow_response.kind = "dict"
    THEN Answer("flow", flow_response.content, TRUE, <<>>)
    ELSE NoneValue

\* a step 2 that never answers from the configured responses
ConfiguredStageIgnored(configured_response) == NoneValue

\* _try_configured_response: what it returns and the calls it made
try_configured_response(has, find) ==
    IF has # "true" THEN [ret |-> NoneValue, calls |-> <<>>]
    ELSE IF find = "content"
    THEN [ret |-> [kind |-> "dict", content |-> ConfiguredContent],
          calls |-> <<FindMatchingResponse>>]
    ELSE [ret |-> NoneValue, calls |-> <<FindMatchingResponse>>]

ConfiguredStageReturn(configured_response) ==
    IF configured_response.kind = "dict"
    THEN Answer("configured", configured_response.content, TRUE, <<>>)
    ELSE NoneValue

\* _try_api_response: what it returns and the calls it made
try_api_response(api_manager, knowledge, generate) ==
    IF api_manager \in {"none", "not_ready"} THEN [ret |-> NoneValue, calls |-> <<>>]
    ELSE IF knowledge = "raise" THEN [ret |-> NoneValue, calls |-> <<SearchKnowledge>>]
    ELSE IF generate = "text"
    THEN [ret |-> [kind |-> "dict", response |-> ApiText,
                   knowledge_used |-> (knowledge = "has_knowledge")],
          calls |-> <<SearchKnowledge, GenerateResponse>>]
    ELSE [ret |-> NoneValue, calls |-> <<SearchKnowledge, GenerateResponse>>]

\* step 3 of get_response: `if api_manager:` and what follows
ApiStageReturn(api_manager, api_response) ==
    IF api_manager = "bool_raises" THEN Raised(<<"api_manager.__bool__">>)
    ELSE IF api_manager # "none" /\ api_response.kind = "dict"
    THEN Answer("api", api_response.response, TRUE, <<>>)
    ELSE NoneValue

get_fallback_response(error_message) ==
    IF error_message = "message" THEN ConfiguredError ELSE DefaultFallback

ZeroStats ==
    [total_requests |-> 0, flow_responses |-> 0,
     configured_responses |-> 0, api_responses |-> 0]

NoWalk == [outcome |-> "not_called", context |-> NewContext(<<>>), ret |-> NoneValue]

-----------------------------------------------------------------------------
(* Flow editing routes *)

\* create_flow: is_active takes the column default, True
create_flow_within(max_flows) ==
    /\ NextId(flows) <= max_flows
    /\ flows' = Append(flows, [id |-> NextId(flows), is_active |-> TRUE])
    /\ UNCHANGED <<nodes, conns>>

create_flow == create_flow_within(MaxFlows)

\* update_flow with 'is_active' in the posted data
update_flow(flow_id, is_active) ==
    /\ GetRow(flows, flow_id).id # 0
    /\ flows' = [i \in 1..Len(flows) |->
                    IF flows[i].id = flow_id
                    THEN [flows[i] EXCEPT !.is_active = is_active] ELSE flows[i]]
    /\ UNCHANGED <<nodes, conns>>

(* delete_flow: the ORM deletes the flow, by the cascade of                 *)
(* ConversationFlow.nodes its nodes, and by the cascade of                  *)
(* FlowNode.connections the connections these are the source of.            *)
delete_flow(flow_id) ==
    /\ GetRow(flows, flow_id).id # 0
    /\ flows' = SelectSeq(flows, LAMBDA f : f.id # flow_id)
    /\ nodes' = SelectSeq(nodes, LAMBDA n : n.flow_id # flow_id)
    /\ conns' = SelectSeq(conns, LAMBDA c : FlowOf(c.source_node_id) # flow_id)

create_node(flow_id, input, y) ==
    /\ GetRow(flows, flow_id).id # 0
    /\ NextId(nodes) <= MaxNodes
    /\ nodes' = Append(nodes, [id |-> NextId(nodes), flow_id |-> flow_id,
                               node_type |-> input.node_type, position_y |-> y,
                               config |-> input.config])
    /\ UNCHANGED <<flows, conns>>

\* update_node with 'position' and 'config' in the posted data
update_node(node_id, y, config) ==
    /\ GetRow(nodes, node_id).id # 0
    /\ nodes' = [i \in 1..Len(nodes) |->
                    IF nodes[i].id = node_id
                    THEN [nodes[i] EXCEPT !.position_y = y, !.config = config]
                    ELSE nodes[i]]
    /\ UNCHANGED <<flows, conns>>

(* delete_node: the ORM deletes the node and, by the cascade of             *)
(* FlowNode.connections, the connections it is the source of.  No           *)
(* relationship covers target_node_id: on the default SQLite database,      *)
(* which does not enforce foreign keys, those rows stay; on a database      *)
(* that enforces them the commit fails and nothing changes.                 *)
delete_node(node_id) ==
    /\ GetRow(nodes, node_id).id # 0
    /\ nodes' = SelectSeq(nodes, LAMBDA n : n.id # node_id)
    /\ conns' = SelectSeq(conns, LAMBDA c : c.source_node_id # node_id)
    /\ UNCHANGED flows

create_connection(source_id, target_id, priority) ==
    /\ GetRow(nodes, source_id).id # 0
    /\ GetRow(nodes, target_id).id # 0
    /\ GetRow(nodes, source_id).flow_id = GetRow(nodes, target_id).flow_id
    /\ NextId(conns) <= MaxConns
    /\ conns' = Append(conns, [id |-> NextId(conns), source_node_id |-> source_id,
                               target_node_id |-> target_id, priority |-> priority])
    /\ UNCHANGED <<flows, nodes>>

delete_connection(connection_id) ==
    /\ GetRow(conns, connection_id).id # 0
    /\ conns' = SelectSeq(conns, LAMBDA c : c.id # connection_id)
    /\ UNCHANGED <<flows, nodes>>

\* the configs the editor posts for a node of a type
ConfigsOf(node_type) ==
    {input.config : input \in {i \in NodeInputs : i.node_type = node_type}}

\* one request to the flow editing routes, on flows 1..max_flows
Edit(max_flows) ==
    \/ create_flow_within(max_flows)
    \/ \E f \in 1..max_flows, a \in BOOLEAN : update_flow(f, a)
    \/ \E f \in 1..max_flows : delete_flow(f)
    \/ \E f \in 1..max_flows, input \in NodeInputs, y \in PositionYs :
          create_node(f, input, y)
    \/ \E n \in 1..MaxNodes, y \in PositionYs :
          \E config \in ConfigsOf(TypeOf(n)) : update_node(n, y, config)
    \/ \E n \in 1..MaxNodes : delete_node(n)
    \/ \E s \in 1..MaxNodes, t \in 1..MaxNodes, p \in Priorities :
          create_connection(s, t, p)
    \/ \E c \in 1..MaxConns : delete_connection(c)

(* The flow tables are read by get_response up to execute_flow only; a      *)
(* write after that commutes with the rest of the call, so the editor's     *)
(* writes interleave with a call up to that point.                          *)
EditFlows ==
    /\ pc \in {"idle", "flow_stage", "flow_exec"}
    /\ Edit(MaxFlows)
    /\ UNCHANGED <<stats, pc, found, walk, flowRes, cfgRes, calls, result>>
    /\ UNCHANGED outsidePipeline

\* the flow editor alone, on several flows
EditSeveralFlows ==
    /\ Edit(MaxEditorFlows)
    /\ UNCHANGED <<stats, pc, found, walk, flowRes, cfgRes, calls, result>>
    /\ UNCHANGED outsidePipeline

-----------------------------------------------------------------------------
(* get_response, one step per stage *)

Bump(counter) == [stats EXCEPT ![counter] = @ + 1]

(* Where a stage of get_response leaves the call: a dict is returned to the *)
(* caller, an exception no handler caught reaches the caller, or the next   *)
(* stage runs.                                                              *)
After(outcome, next_stage) ==
    IF outcome.kind = "dict" THEN "done"
    ELSE IF outcome.kind = "raise" THEN "raised"
    ELSE next_stage

\* `self.stats['total_requests'] += 1`, before the try
GetResponseStart ==
    /\ pc \in {"idle", "done"}
    /\ stats.total_requests < MaxRequests
    /\ stats' = Bump("total_requests")
    /\ pc' = "flow_stage"
    /\ found' = 0
    /\ walk' = NoWalk
    /\ flowRes' = NoneValue
    /\ cfgRes' = NoneValue
    /\ calls' = <<>>
    /\ result' = NoneValue
    /\ UNCHANGED <<flows, nodes, conns>>
    /\ UNCHANGED outsidePipeline

\* _try_flow_response up to find_matching_flow
TryFlowFind ==
    /\ pc = "flow_stage"
    /\ \E ok1 \in BOOLEAN, ok2 \in BOOLEAN :
          found' = IF has_active_flows(ok1) THEN find_matching_flow(ok2) ELSE 0
    /\ pc' = IF found' = 0 THEN "configured_stage" ELSE "flow_exec"
    /\ UNCHANGED <<flows, nodes, conns, stats, walk, flowRes, cfgRes, calls, result>>
    /\ UNCHANGED outsidePipeline

\* execute_flow, the rest of _try_flow_response and step 1 of get_response
TryFlowExec ==
    /\ pc = "flow_exec"
    /\ \E user_message \in Messages, ok \in BOOLEAN :
          walk' = execute_flow(found, user_message, ok)
    /\ flowRes' = try_flow_response(walk'.ret)
    /\ result' = GetResponseTry(FlowStageReturn(flowRes'))
    /\ pc' = After(result', "configured_stage")
    /\ stats' = IF flowRes'.kind = "dict" THEN Bump("flow_responses") ELSE stats
    /\ calls' = Append(calls, ExecuteFlow)
    /\ UNCHANGED <<flows, nodes, conns, found, cfgRes>>
    /\ UNCHANGED outsidePipeline

\* step 2 of get_response
ConfiguredStage ==
    /\ pc = "configured_stage"
    /\ \E has \in HasConfiguredOutcomes, find \in FindResponseOutcomes :
          LET r == try_configured_response(has, find)
          IN  /\ cfgRes' = r.ret
              /\ calls' = calls \o r.calls
    /\ result' = GetResponseTry(ConfiguredStageReturn(cfgRes'))
    /\ pc' = After(result', "api_stage")
    /\ stats' = IF cfgRes'.kind = "dict" THEN Bump("configured_responses") ELSE stats
    /\ UNCHANGED <<flows, nodes, conns, found, walk, flowRes>>
    /\ UNCHANGED outsidePipeline

\* step 3 of get_response
ApiStage ==
    /\ pc = "api_stage"
    /\ \E api_manager \in ApiManagers, knowledge \in KnowledgeOutcomes,
          generate \in GenerateOutcomes :
          LET r == IF api_manager \in {"none", "bool_raises"}
                   THEN [ret |-> NoneValue, calls |-> <<>>]
                   ELSE try_api_response(api_manager, knowledge, generate)
          IN  /\ calls' = calls \o r.calls
              /\ result' = GetResponseTry(ApiStageReturn(api_manager, r.ret))
              /\ stats' = IF api_manager # "bool_raises" /\ r.ret.kind = "dict"
                          THEN Bump("api_responses") ELSE stats
    /\ pc' = After(result', "fallback")
    /\ UNCHANGED <<flows, nodes, conns, found, walk, flowRes, cfgRes>>
    /\ UNCHANGED outsidePipeline

\* step 4 of get_response
Fallback ==
    /\ pc = "fallback"
    /\ \E error_message \in ErrorMessageOutcomes :
          result' = GetResponseTry(
                        Answer("fallback", get_fallback_response(error_message), FALSE, <<>>))
    /\ pc' = After(result', "done")
    /\ UNCHANGED <<flows, nodes, conns, stats, found, walk, flowRes, cfgRes, calls>>
    /\ UNCHANGED outsidePipeline

\* DecisionEngine.reset_statistics, called by the route reset_decision_stats
\* whatever the position of the get_response call in flight
reset_statistics == stats' = ZeroStats

ResetStatistics ==
    /\ reset_statistics
    /\ UNCHANGED <<flows, nodes, conns, pc, found, walk, flowRes, cfgRes, calls, result>>
    /\ UNCHANGED outsidePipeline

-----------------------------------------------------------------------------
(* Quick-response cache (app/fast_responses_cache.py): the module globals,  *)
(* initialize_cache, refresh_cache, get_relevant_responses.                 *)

\* the time.time() of the start of the process
Startup == 1000

\* the clock stops MaxAge seconds after the start
MaxAge == 600

\* the seconds between two requests
ClockStep == 150

\* CACHE_TTL = 300  # 5 minutes
CACHE_TTL == 300

\* max_results of get_relevant_responses
MaxResults == 3

\* responses_cache[trigger] = {...}: a known key keeps its place, a new key goes last
Put(cache_entries, entry) ==
    IF \E i \in 1..Len(cache_entries) : cache_entries[i].trigger = entry.trigger
    THEN [i \in 1..Len(cache_entries) |->
             IF cache_entries[i].trigger = entry.trigger THEN entry ELSE cache_entries[i]]
    ELSE Append(cache_entries, entry)

\* [t.strip().lower() for t in response.triggers.split(',')]
CacheTriggers(triggers) ==
    LET parts == SplitAt(triggers, {","})
    IN  [i \in 1..Len(parts) |-> Lower(Strip(parts[i]))]

\* `for trigger in triggers: if trigger: responses_cache[trigger] = {...}` for one row
RECURSIVE PutTriggers(_, _, _)
PutTriggers(cache_entries, triggers, row) ==
    IF triggers = <<>> THEN cache_entries
    ELSE PutTriggers(IF Head(triggers) # <<>>
                     THEN Put(cache_entries, [trigger |-> Head(triggers), id |-> row.id,
                                              content |-> row.content])
                     ELSE cache_entries,
                     Tail(triggers), row)

\* `for response in responses: if response.triggers: ...` after responses_cache.clear()
RECURSIVE LoadResponses(_, _)
LoadResponses(cache_entries, rows) ==
    IF rows = <<>> THEN cache_entries
    ELSE LoadResponses(IF Head(rows).triggers # <<>>
                       THEN PutTriggers(cache_entries, CacheTriggers(Head(rows).triggers),
                                        Head(rows))
                       ELSE cache_entries,
                       Tail(rows))

(* initialize_cache, called when the globals are `initialized` and          *)
(* `refreshed` and the DefaultMessage table holds `rows`; a query that      *)
(* raises is logged and leaves the globals as they are.                     *)
initialize_cache(initialized, refreshed, rows, query_raises) ==
    IF (initialized /\ clock - refreshed < CACHE_TTL) \/ query_raises
    THEN /\ responses_cache' = responses_cache
         /\ cache_initialized' = initialized
         /\ last_refresh' = refreshed
    ELSE /\ responses_cache' = LoadResponses(<<>>, rows)
         /\ cache_initialized' = TRUE
         /\ last_refresh' = clock

\* refresh_cache
refresh_cache(rows, query_raises) == initialize_cache(FALSE, 0, rows, query_raises)

\* message.split(), in order
WordList(t) == SelectSeq(SplitAt(t, Whitespace), LAMBDA w : w # <<>>)

\* `responses_cache[word]` for a word that is a key
EntryOf(cache_entries, word) ==
    cache_entries[CHOOSE i \in 1..Len(cache_entries) : cache_entries[i].trigger = word]

\* 1. the words of the message that are keys of the cache, score 2.0
ExactMatches(cache_entries, words) ==
    LET keys == {cache_entries[i].trigger : i \in 1..Len(cache_entries)}
        hits == SelectSeq(words, LAMBDA w : w \in keys)
    IN  [i \in 1..Len(hits) |->
            [trigger |-> hits[i], content |-> EntryOf(cache_entries, hits[i]).content,
             score |-> Ratio(2, 1), match_type |-> "exact"]]

\* 2. the triggers that are substrings of the message, score 1.5
SubstringMatches(cache_entries, message_lower) ==
    LET hits == SelectSeq(cache_entries, LAMBDA e : Contains(e.trigger, message_lower))
    IN  [i \in 1..Len(hits) |->
            [trigger |-> hits[i].trigger, content |-> hits[i].content,
             score |-> Ratio(3, 2), match_type |-> "substring"]]

\* len(common_words) / len(trigger_words) of one trigger
Similarity(trigger, message_lower) ==
    Ratio(Cardinality(Words(message_lower) \cap Words(trigger)),
          Cardinality(Words(trigger)))

\* 3. the triggers that share words with the message, score above 0.3
SimilarityMatches(cache_entries, message_lower) ==
    LET hits == SelectSeq(cache_entries,
                          LAMBDA e : /\ Words(message_lower) \cap Words(e.trigger) # {}
                                     /\ Greater(Similarity(e.trigger, message_lower),
                                                Ratio(3, 10)))
    IN  [i \in 1..Len(hits) |->
            [trigger |-> hits[i].trigger, content |-> hits[i].content,
             score |-> Similarity(hits[i].trigger, message_lower),
             match_type |-> "similarity"]]

\* the seen_contents test: a candidate is kept when no kept one has its content
RECURSIVE KeepUnseen(_, _)
KeepUnseen(kept, candidates) ==
    IF candidates = <<>> THEN kept
    ELSE KeepUnseen(IF \E i \in 1..Len(kept) : kept[i].content = Head(candidates).content
                    THEN kept ELSE Append(kept, Head(candidates)),
                    Tail(candidates))

\* list.sort(key=score, reverse=True): stable, the larger score first
RECURSIVE SortByScore(_)
SortByScore(list) ==
    IF list = <<>> THEN <<>>
    ELSE LET first == CHOOSE i \in 1..Len(list) :
                         /\ \A j \in 1..Len(list) : ~Greater(list[j].score, list[i].score)
                         /\ \A j \in 1..(i - 1) : Greater(list[i].score, list[j].score)
         IN  <<list[first]>> \o SortByScore(SubSeq(list, 1, first - 1)
                                             \o SubSeq(list, first + 1, Len(list)))

(* what get_relevant_responses returns from the entries of the cache; the   *)
(* contents of the model hold no '{', so process_variables replaces nothing *)
RelevantResponses(cache_entries, message, max_results) ==
    LET message_lower == Strip(Lower(message))
        relevant_responses ==
            KeepUnseen(<<>>, ExactMatches(cache_entries, WordList(message_lower))
                             \o SubstringMatches(cache_entries, message_lower)
                             \o SimilarityMatches(cache_entries, message_lower))
    IN  FirstOf(SortByScore(relevant_responses), max_results)

NotServed == [asked |-> FALSE, message |-> <<>>, raised |-> FALSE, responses |-> <<>>]

\* get_relevant_responses(message)
get_relevant_responses(message, query_raises) ==
    /\ IF ~cache_initialized
       THEN initialize_cache(cache_initialized, last_refresh, default_messages, query_raises)
       ELSE UNCHANGED <<responses_cache, cache_initialized, last_refresh>>
    /\ served' = [asked |-> TRUE, message |-> message,
                  raised |-> (~cache_initialized /\ query_raises),
                  responses |-> RelevantResponses(responses_cache', message, MaxResults)]
    /\ clock' = clock

\* the refresh_cache() a handler calls once its change is committed
RefreshAfterCommit(rows) ==
    /\ refresh_cache(rows, FALSE)
    /\ served' = NotServed
    /\ clock' = clock

\* what a handler that calls refresh_cache leaves alone, besides its own tables
outsideSettingsAndCache == <<pipelineVars, responseVars, textVars, replyVars, apiVars, chatVars, promptVars, knowledgeVars>>

outsideResponsesAndCache == <<pipelineVars, settingsVars, textVars, replyVars, apiVars, chatVars, promptVars, knowledgeVars>>

\* the process starts with initialize_cache(app) on the empty DefaultMessage table
InitCache ==
    /\ responses_cache = <<>>
    /\ cache_initialized = TRUE
    /\ last_refresh = Startup
    /\ clock = Startup
    /\ served = NotServed

-----------------------------------------------------------------------------
(* Bot identity: the Settings table, get_bot_info and its cache             *)
(* (app/bot_answers.py), ContextBuilder._get_bot_info                       *)
(* (app/context_builder.py) and the routes that write bot_name.             *)

MaxUsers == 2
MaxTime == 31

\* _bot_info_cache["ttl"]
TTL == 30

\* user ids; 0 stands for None (Settings.user_id NULL, get_bot_info without user_id)
Users == 1..MaxUsers

\* the column defaults of Settings.bot_name and Settings.bot_description
ColumnDefaultName == "Leo"
ColumnDefaultDescription == "Je suis Leo, votre assistant intelligent et sympathique."

\* what the forms post as bot name and description, stripped
Forms ==
    { [bot_name |-> "Ada", description |-> "Ada vend des fleurs"],
      [bot_name |-> "", description |-> ""] }

\* seconds that pass between two requests
Delays == {TTL, TTL + 1}

\* Python's `value or default` on strings
Or(value, default) == IF value = "" THEN default ELSE value

\* Settings.query.filter_by(user_id=user_id).first() on a table
FirstOfUser(rows, user_id) ==
    LET ids == {rows[i].id : i \in {j \in 1..Len(rows) : rows[j].user_id = user_id}}
    IN  IF ids = {} THEN NoRow
        ELSE GetRow(rows, CHOOSE id \in ids : \A other \in ids : id <= other)

\* Settings.query.first() on a table
FirstOfAll(rows) == IF rows = <<>> THEN NoRow ELSE rows[1]

\* the Settings row get_bot_info reads for a user, NoRow when the table gives none
SettingsFor(rows, user_id) ==
    LET user_settings == IF user_id # 0 THEN FirstOfUser(rows, user_id) ELSE NoRow
        own == IF user_settings.id # 0 /\ user_settings.bot_name # ""
               THEN user_settings ELSE NoRow
        general == IF own.id # 0 THEN own ELSE FirstOfUser(rows, 0)
    IN  IF general.id # 0 THEN general ELSE FirstOfAll(rows)

\* the defaults of get_bot_info, without a row and after an exception
DefaultBotData ==
    [name |-> "Assistant", description |-> "Je suis votre assistant virtuel specialise."]

\* bot_data of get_bot_info for the row it read
BotData(row) ==
    IF row.id = 0 THEN DefaultBotData
    ELSE [name |-> Or(row.bot_name, "Assistant"),
          description |-> Or(row.bot_description, DefaultBotData.description)]

\* cache_key of get_bot_info and clear_bot_info_cache
CacheKey(user_id) ==
    IF user_id # 0 THEN [scope |-> "user", user_id |-> user_id]
    ELSE [scope |-> "global", user_id |-> 0]

CacheKeys == {CacheKey(user_id) : user_id \in 0..MaxUsers}

NoEntry == [data |-> DefaultBotData, timestamp |-> -1]

NoLookup ==
    [user_id |-> 0, source |-> "none", after_write |-> FALSE, info |-> DefaultBotData]

NoIdentity == [user_id |-> 0, info |-> DefaultBotData]

\* the test that sends get_bot_info to the database
MustLoad(cache_key, force_refresh) ==
    \/ cache[cache_key] = NoEntry
    \/ now - cache[cache_key].timestamp > TTL
    \/ force_refresh

\* get_bot_info(force_refresh, user_id); query_raises: the Settings query raises
get_bot_info(force_refresh, user_id, query_raises) ==
    LET cache_key == CacheKey(user_id)
        load == MustLoad(cache_key, force_refresh)
        bot_data == IF query_raises THEN DefaultBotData
                    ELSE BotData(SettingsFor(settings, user_id))
    IN  /\ query_raises => load
        /\ cache' = IF load
                    THEN [cache EXCEPT ![cache_key] = [data |-> bot_data, timestamp |-> now]]
                    ELSE cache
        /\ lookup' = [user_id |-> user_id,
                      source |-> IF ~load THEN "cache"
                                 ELSE IF query_raises THEN "error" ELSE "database",
                      after_write |-> written,
                      info |-> cache'[cache_key].data]
        /\ identity' = NoIdentity
        /\ UNCHANGED <<settings, now, written>>

\* clear_bot_info_cache(user_id)
clear_bot_info_cache(user_id) ==
    IF user_id # 0 THEN [cache EXCEPT ![CacheKey(user_id)] = NoEntry]
    ELSE [cache_key \in CacheKeys |-> NoEntry]

\* refresh_all_bot_info: clear_bot_info_cache() and get_bot_info(force_refresh=True)
refresh_all_bot_info(query_raises) ==
    LET bot_data == IF query_raises THEN DefaultBotData
                    ELSE BotData(SettingsFor(settings, 0))
    IN  /\ cache' = [clear_bot_info_cache(0) EXCEPT
                        ![CacheKey(0)] = [data |-> bot_data, timestamp |-> now]]
        /\ lookup' = NoLookup
        /\ identity' = NoIdentity
        /\ UNCHANGED <<settings, now, written>>

\* ContextBuilder._get_bot_info on a table: name and description
ContextBuilderBotInfo(rows) ==
    LET global == FirstOfUser(rows, 0)
        general_settings_row == IF global.id # 0 THEN global ELSE FirstOfAll(rows)
    IN  IF general_settings_row.id # 0
        THEN [name |-> Or(general_settings_row.bot_name, "Assistant"),
              description |-> Or(general_settings_row.bot_description,
                                 "Je suis votre assistant virtuel.")]
        ELSE [name |-> "Assistant", description |-> "Je suis votre assistant virtuel."]

\* the chatbot route of a logged-in user, as far as the bot identity goes
chatbot(user_id) ==
    /\ identity' = [user_id |-> user_id, info |-> ContextBuilderBotInfo(settings)]
    /\ lookup' = NoLookup
    /\ UNCHANGED <<settings, cache, now, written>>

\* the table after `Settings.query.first()` / `Settings()` of the general routes
WithGeneralRow(rows) ==
    IF rows # <<>> THEN rows
    ELSE <<[id |-> 1, user_id |-> 0, bot_name |-> ColumnDefaultName,
            bot_description |-> ColumnDefaultDescription]>>

\* general_settings, GET
general_settings_get ==
    /\ settings = <<>>
    /\ settings' = WithGeneralRow(settings)
    /\ lookup' = NoLookup
    /\ identity' = NoIdentity
    /\ UNCHANGED <<cache, now, written>>

\* general_settings, POST without avatar: writes the first row, commits,
\* refreshes the fast responses cache
general_settings_post(form) ==
    LET rows == WithGeneralRow(settings)
    IN  /\ settings' = [rows EXCEPT ![1].bot_name = form.bot_name,
                                    ![1].bot_description = form.description]
        /\ written' = (written \/ form.bot_name # rows[1].bot_name)
        /\ lookup' = NoLookup
        /\ identity' = NoIdentity
        /\ UNCHANGED <<cache, now>>

\* the table with a form written to the row of a user, created when missing
WithUserRow(rows, user_id, bot_name, bot_description) ==
    IF FirstOfUser(rows, user_id).id # 0
    THEN [i \in 1..Len(rows) |->
             IF rows[i].id = FirstOfUser(rows, user_id).id
             THEN [rows[i] EXCEPT !.bot_name = bot_name,
                                  !.bot_description = bot_description]
             ELSE rows[i]]
    ELSE Append(rows, [id |-> NextId(rows), user_id |-> user_id,
                       bot_name |-> bot_name, bot_description |-> bot_description])

\* save_wizard of a logged-in user
save_wizard(user_id, form) ==
    /\ settings' = WithUserRow(settings, user_id, form.bot_name, form.description)
    /\ lookup' = NoLookup
    /\ identity' = NoIdentity
    /\ UNCHANGED <<cache, now, written>>

\* save_api_config of a logged-in user without a Settings row: the row is
\* created with the column defaults
save_api_config(user_id) ==
    /\ FirstOfUser(settings, user_id).id = 0
    /\ settings' = WithUserRow(settings, user_id, ColumnDefaultName, ColumnDefaultDescription)
    /\ lookup' = NoLookup
    /\ identity' = NoIdentity
    /\ UNCHANGED <<cache, now, written>>

\* time passes between two requests
Tick ==
    /\ \E delay \in Delays : now + delay <= MaxTime /\ now' = now + delay
    /\ lookup' = NoLookup
    /\ identity' = NoIdentity
    /\ UNCHANGED <<settings, cache, written>>

InitSettings ==
    /\ settings = <<>>
    /\ cache = [cache_key \in CacheKeys |-> NoEntry]
    /\ now = 0
    /\ lookup = NoLookup
    /\ identity = NoIdentity
    /\ written = FALSE

GetBotInfo ==
    /\ \E force_refresh \in BOOLEAN, user_id \in 0..MaxUsers, query_raises \in BOOLEAN :
          get_bot_info(force_refresh, user_id, query_raises)
    /\ UNCHANGED outsideSettings

RefreshAllBotInfo ==
    /\ \E query_raises \in BOOLEAN : refresh_all_bot_info(query_raises)
    /\ UNCHANGED outsideSettings

Chatbot ==
    /\ \E user_id \in Users : chatbot(user_id)
    /\ UNCHANGED outsideSettings

GeneralSettings ==
    /\ \/ general_settings_get /\ UNCHANGED cacheVars
       \/ (\E form \in Forms : general_settings_post(form))
             /\ RefreshAfterCommit(default_messages)
    /\ UNCHANGED outsideSettingsAndCache

SaveWizard ==
    /\ \E user_id \in Users, form \in Forms : save_wizard(user_id, form)
    /\ UNCHANGED outsideSettings

SaveApiConfig ==
    /\ \E user_id \in Users : save_api_config(user_id)
    /\ UNCHANGED outsideSettings

TimePasses ==
    /\ Tick
    /\ UNCHANGED outsideSettings

\* the requests that resolve the identity without the cache
NextIdentity ==
    \/ Chatbot
    \/ GeneralSettings
    \/ SaveWizard
    \/ SaveApiConfig

\* the requests that go through get_bot_info and its cache
NextSettings ==
    \/ GetBotInfo
    \/ RefreshAllBotInfo
    \/ GeneralSettings
    \/ SaveWizard
    \/ SaveApiConfig
    \/ TimePasses

-----------------------------------------------------------------------------
(* Response Manager (app/response_manager.py): scores of the quick          *)
(* responses, detection of the essential templates, find_matching_response. *)

MaxQuickResponses == 2

\* the 0.9 of a matching template pattern
PatternScore == Ratio(9, 10)

\* a loop body that adds the word score to the phrase score
TriggerScoreBoth(message, trigger) ==
    LET trigger_normalized == normalize_text(trigger)
        trigger_words == Words(trigger_normalized)
        matching_words == Words(message) \cap trigger_words
        phrase == IF Contains(trigger_normalized, message) THEN One ELSE Zero
    IN  IF matching_words # {}
        THEN Plus(phrase, Ratio(7 * Cardinality(matching_words),
                                10 * Cardinality(trigger_words)))
        ELSE phrase

\* what one trigger adds to total_score in _calculate_trigger_score
TriggerScore(message, trigger) ==
    LET trigger_normalized == normalize_text(trigger)
        trigger_words == Words(trigger_normalized)
        matching_words == Words(message) \cap trigger_words
    IN  IF Contains(trigger_normalized, message) THEN One
        ELSE IF matching_words # {}
        THEN Ratio(7 * Cardinality(matching_words), 10 * Cardinality(trigger_words))
        ELSE Zero

RECURSIVE TotalScore(_, _)
TotalScore(message, triggers) ==
    IF triggers = <<>> THEN Zero
    ELSE Plus(TriggerScore(message, Head(triggers)), TotalScore(message, Tail(triggers)))

\* a score that is the best of the triggers, not their mean
RECURSIVE BestTriggerScore(_, _)
BestTriggerScore(message, triggers) ==
    IF triggers = <<>> THEN Zero
    ELSE LET first == TriggerScore(message, Head(triggers))
             others == BestTriggerScore(message, Tail(triggers))
         IN  IF Greater(others, first) THEN others ELSE first

\* _calculate_trigger_score(message, triggers), message normalized
calculate_trigger_score(message, triggers) ==
    IF triggers = <<>> THEN Zero
    ELSE Minimum(DividedBy(TotalScore(message, triggers), Len(triggers)), One)

NoMatch == [id |-> 0, content |-> "", confidence |-> Zero]

\* `if score >= best_score`: the last of the best rows wins
KeepsLast(best, response, score) ==
    IF ~Greater(best.confidence, score) /\ Greater(score, Zero)
    THEN [id |-> response.id, content |-> response.content, confidence |-> score]
    ELSE best

\* `if score > best_score: best_score = score; best_match = {...}`
Keeps(best, response, score) ==
    IF Greater(score, best.confidence)
    THEN [id |-> response.id, content |-> response.content, confidence |-> score]
    ELSE best

\* the `score` of each row in the loop of _find_quick_response, Zero for a
\* row the loop skips
Scores(normalized_message, quick_responses) ==
    [i \in 1..Len(quick_responses) |->
        IF quick_responses[i].triggers = <<>> THEN Zero
        ELSE calculate_trigger_score(normalized_message,
                                     TriggerList(quick_responses[i].triggers))]

\* the loop of _find_quick_response over the rows, in query order
RECURSIVE BestMatch(_, _, _)
BestMatch(normalized_message, quick_responses, best) ==
    IF quick_responses = <<>> THEN best
    ELSE LET response == Head(quick_responses)
             triggers == TriggerList(response.triggers)
         IN  BestMatch(normalized_message, Tail(quick_responses),
                       IF response.triggers = <<>> THEN best
                       ELSE Keeps(best, response,
                                  calculate_trigger_score(normalized_message, triggers)))

\* _find_quick_response; query_raises: DefaultMessage.query.all() raises
find_quick_response(normalized_message, quick_responses, query_raises) ==
    LET best == BestMatch(normalized_message, quick_responses, NoMatch)
    IN  IF ~query_raises /\ best.id # 0 /\ Greater(best.confidence, Half)
        THEN [kind |-> "dict", id |-> best.id, content |-> best.content,
              confidence |-> best.confidence]
        ELSE NoneValue

\* the template families of _find_template_response, in the order of the dict
TemplateTypes == <<"greeting", "farewell", "thanks", "help">>

(* The alternatives of the two patterns of each family; \s+ between two     *)
(* words is one space, the message being normalized.                        *)
Patterns ==
    [greeting |-> { <<"b","o","n","j","o","u","r">>,
          <<"s","a","l","u","t">>,
          <<"h","e","l","l","o">>,
          <<"h","i">>,
          <<"h","e","y">>,
          <<"c","o","u","c","o","u">>,
          <<"b","o","n","s","o","i","r">>,
          <<"b","o","n","n","e"," ","j","o","u","r","n","e","e">> },
     farewell |-> { <<"a","u"," ","r","e","v","o","i","r">>,
          <<"b","y","e">>,
          <<"c","i","a","o">>,
          <<"a"," ","b","i","e","n","t","o","t">>,
          <<"a","d","i","e","u">>,
          <<"b","o","n","n","e"," ","s","o","i","r","e","e">>,
          <<"b","o","n","n","e"," ","n","u","i","t">> },
     thanks |-> { <<"m","e","r","c","i">>,
          <<"t","h","a","n","k">>,
          <<"r","e","m","e","r","c","i","e">>,
          <<"m","e","r","c","i"," ","b","e","a","u","c","o","u","p">>,
          <<"m","e","r","c","i"," ","b","i","e","n">> },
     help |-> { <<"a","i","d","e">>,
          <<"h","e","l","p">>,
          <<"a","i","d","e","r">>,
          <<"a","s","s","i","s","t","e","r">>,
          <<"c","o","m","m","e","n","t">>,
          <<"q","u","e"," ","f","a","i","r","e">>,
          <<"c","o","m","m","e","n","t"," ","f","a","i","r","e">> }]

\* re.search(r'\b(alternative)\b', normalized_message)
WordSearch(alternative, normalized_message) ==
    Contains(<<" ">> \o alternative \o <<" ">>, <<" ">> \o normalized_message \o <<" ">>)

PatternMatches(template_type, normalized_message) ==
    \E alternative \in Patterns[template_type] : WordSearch(alternative, normalized_message)

\* the content stored for a template type
TemplateContent(template_type) ==
    CASE template_type = "greeting" -> "Bonjour et bienvenue"
      [] template_type = "farewell" -> "A bientot"
      [] template_type = "thanks" -> "Avec plaisir"
      [] template_type = "help" -> "Je peux vous aider"

(* _find_template_response: config is what BotResponses.query.first()       *)
(* returned, "none" without a row, otherwise the keys of essential_templates *)
find_template_response(normalized_message, config, query_raises) ==
    LET candidates == {i \in 1..Len(TemplateTypes) :
                          /\ TemplateTypes[i] \in config.templates
                          /\ PatternMatches(TemplateTypes[i], normalized_message)}
    IN  IF query_raises \/ ~config.exists \/ config.templates = {} \/ candidates = {}
        THEN NoneValue
        ELSE LET first == CHOOSE i \in candidates : \A j \in candidates : i <= j
             IN  [kind |-> "dict", type |-> TemplateTypes[first],
                  content |-> TemplateContent(TemplateTypes[first]),
                  confidence |-> PatternScore]

\* find_matching_response(user_message)
find_matching_response(user_message, quick_raises, template_raises) ==
    LET normalized_message == normalize_text(user_message)
        quick_response == find_quick_response(normalized_message, default_messages,
                                              quick_raises)
        template_response == find_template_response(normalized_message, bot_responses,
                                                    template_raises)
    IN  IF quick_response # NoneValue
        THEN [kind |-> "dict", type |-> "quick_response",
              content |-> quick_response.content,
              confidence |-> quick_response.confidence]
        ELSE IF template_response # NoneValue
        THEN [kind |-> "dict", type |-> "template",
              template_type |-> template_response.type,
              content |-> template_response.content,
              confidence |-> template_response.confidence]
        ELSE NoneValue

\* the messages of the users
MsgHeures == <<"Q","u","e","l","l","e","s"," ","s","o","n","t"," ","v","o","s"," ","h","e","u","r","e","s"," ","d","'","o","u","v","e","r","t","u","r","e"," ","?">>

MsgHoraires == <<"H","o","r","a","i","r","e","s">>

MsgHorairesOuverture == <<"H","o","r","a","i","r","e","s"," ","d","'","o","u","v","e","r","t","u","r","e">>

MsgMerciAuRevoir == <<"M","e","r","c","i",","," ","a","u"," ","r","e","v","o","i","r">>

MsgCommentOuvrir == <<"C","o","m","m","e","n","t"," ","o","u","v","r","i","r"," ","?">>

UserMessages ==
    {MsgHeures, MsgHoraires, MsgHorairesOuverture, MsgBonjour, MsgMerciAuRevoir, MsgCommentOuvrir}

\* the trigger lists the forms post
Horaires == <<"h","o","r","a","i","r","e","s">>

HeuresOuverture == <<"h","e","u","r","e","s"," ","o","u","v","e","r","t","u","r","e">>

Merci == <<"m","e","r","c","i">>

QuestionMark == <<"?">>

Blank == <<" ">>

TriggerLists ==
    { <<Horaires, HeuresOuverture>>, <<HeuresOuverture>>, <<Merci>>,
      <<Horaires, QuestionMark>>, <<Blank>>, <<>> }

\* ','.join(triggers)
RECURSIVE JoinCommas(_)
JoinCommas(parts) ==
    IF parts = <<>> THEN <<>>
    ELSE IF Len(parts) = 1 THEN parts[1]
    ELSE parts[1] \o <<",">> \o JoinCommas(Tail(parts))

\* the content the form posts for the row that gets an id
ContentFor(id) == IF id = 1 THEN "Nous sommes ouverts 9h-18h" ELSE "De rien"

\* the keys of the essentialTemplates the configuration form posts
TemplateKeySets ==
    { {}, {"thanks"}, {"thanks", "help"}, {"greeting", "farewell", "thanks", "help"} }

NoConfig == [exists |-> FALSE, templates |-> {}]

NotAsked ==
    [message |-> <<>>, quick_raises |-> FALSE, template_raises |-> FALSE,
     scores |-> <<>>, ret |-> [kind |-> "none"]]

\* create_default_message
create_default_message(triggers, content) ==
    /\ NextId(default_messages) <= MaxQuickResponses
    /\ default_messages' = Append(default_messages,
                                  [id |-> NextId(default_messages),
                                   triggers |-> JoinCommas(triggers),
                                   content |-> content])
    /\ matched' = NotAsked
    /\ UNCHANGED bot_responses

\* delete_default_message
delete_default_message(message_id) ==
    /\ GetRow(default_messages, message_id).id # 0
    /\ default_messages' = SelectSeq(default_messages, LAMBDA r : r.id # message_id)
    /\ matched' = NotAsked
    /\ UNCHANGED bot_responses

\* the configuration form: `config.essential_templates = data['essentialTemplates']`
save_essential_templates(keys) ==
    /\ bot_responses' = [exists |-> TRUE, templates |-> keys]
    /\ matched' = NotAsked
    /\ UNCHANGED default_messages

\* one call of ResponseManager.find_matching_response
FindMatching(user_message, quick_raises, template_raises) ==
    /\ matched' = [message |-> user_message, quick_raises |-> quick_raises,
                   template_raises |-> template_raises,
                   scores |-> IF quick_raises THEN <<>>
                              ELSE Scores(normalize_text(user_message), default_messages),
                   ret |-> find_matching_response(user_message, quick_raises,
                                                  template_raises)]
    /\ UNCHANGED <<default_messages, bot_responses>>

InitResponses ==
    /\ default_messages = <<>>
    /\ bot_responses = NoConfig
    /\ matched = NotAsked

CreateDefaultMessage ==
    /\ \E triggers \in TriggerLists :
          create_default_message(triggers, ContentFor(NextId(default_messages)))
    /\ RefreshAfterCommit(default_messages')
    /\ UNCHANGED outsideResponsesAndCache

DeleteDefaultMessage ==
    /\ \E message_id \in 1..MaxQuickResponses : delete_default_message(message_id)
    /\ RefreshAfterCommit(default_messages')
    /\ UNCHANGED outsideResponsesAndCache

SaveEssentialTemplates ==
    /\ \E keys \in TemplateKeySets : save_essential_templates(keys)
    /\ RefreshAfterCommit(default_messages')
    /\ UNCHANGED outsideResponsesAndCache

FindMatchingResponseCall ==
    /\ \E user_message \in UserMessages, quick_raises \in BOOLEAN,
          template_raises \in BOOLEAN :
          FindMatching(user_message, quick_raises, template_raises)
    /\ UNCHANGED outsideResponses

NextResponses ==
    \/ CreateDefaultMessage
    \/ DeleteDefaultMessage
    \/ SaveEssentialTemplates
    \/ FindMatchingResponseCall

\* the messages get_relevant_responses is asked about
CacheMessages == {MsgHoraires, MsgHorairesOuverture, MsgMerciAuRevoir}

GetRelevantResponses ==
    /\ \E message \in CacheMessages, query_raises \in BOOLEAN :
          get_relevant_responses(message, query_raises)
    /\ UNCHANGED outsideCache

\* POST /api/fast-responses/refresh-cache
RefreshFastResponsesCache ==
    /\ \E query_raises \in BOOLEAN : refresh_cache(default_messages, query_raises)
    /\ served' = NotServed
    /\ clock' = clock
    /\ UNCHANGED outsideCache

(* create_default_message or delete_default_message handled by another     *)
(* worker process: the table is shared, the refresh_cache of the handler    *)
(* reloads the globals of that process, not those of this one.              *)
OtherWorkerWrites ==
    /\ \/ \E triggers \in TriggerLists :
             create_default_message(triggers, ContentFor(NextId(default_messages)))
       \/ \E message_id \in 1..MaxQuickResponses : delete_default_message(message_id)
    /\ served' = NotServed
    /\ UNCHANGED <<responses_cache, cache_initialized, last_refresh, clock>>
    /\ UNCHANGED outsideResponsesAndCache

\* time passes between two requests
SecondsPass ==
    /\ clock + ClockStep <= Startup + MaxAge
    /\ clock' = clock + ClockStep
    /\ served' = NotServed
    /\ UNCHANGED <<responses_cache, cache_initialized, last_refresh>>
    /\ UNCHANGED outsideCache

NextCache ==
    \/ GetRelevantResponses
    \/ RefreshFastResponsesCache
    \/ CreateDefaultMessage
    \/ DeleteDefaultMessage
    \/ OtherWorkerWrites
    \/ SecondsPass

-----------------------------------------------------------------------------
(* normalize_text (app/bot_answers.py) applied to a text, then to its own   *)
(* result.                                                                  *)

MaxLen == 4
MaxPasses == 2

\* the characters of the texts: letters of both cases, a digit, white space,
\* punctuation, accented letters, and characters NFKD drops or expands
Alphabet == {"a", "B", "1", " ", "tab", "!", "Eacute", "oelig", "tm"}

\* the texts of at most n characters
TextsUpTo(n) == UNION {[1..k -> Alphabet] : k \in 0..n}

InitText ==
    /\ given = <<>>
    /\ normalized = <<>>

\* a text is given
GivenText ==
    /\ given \in TextsUpTo(MaxLen)
    /\ normalized = <<>>

\* normalize_text on the text, then on the last result
Normalize ==
    /\ Len(normalized) < MaxPasses
    /\ normalized' = Append(normalized,
                            normalize_text(IF normalized = <<>> THEN given
                                           ELSE normalized[Len(normalized)]))
    /\ UNCHANGED given
    /\ UNCHANGED outsideText

-----------------------------------------------------------------------------
(* Identity post-processing of an LLM reply: post_process_api_response      *)
(* (app/routes.py) and ContextBuilder.post_process_response                 *)
(* (app/context_builder.py).                                                *)

MaxSentences == 2

\* where the first match of a phrase, whatever the case, starts in a text; 0
\* when the phrase is not found
FirstMatch(phrase, t) ==
    LET starts == {i \in 1..(Len(t) - Len(phrase) + 1) :
                      /\ phrase # <<>> => LowerChar(t[i]) = LowerChar(phrase[1])
                      /\ Lower(SubSeq(t, i, i + Len(phrase) - 1)) = Lower(phrase)}
    IN  IF starts = {} THEN 0 ELSE CHOOSE i \in starts : \A j \in starts : i <= j

\* `phrase.lower() in response_lower`
Found(phrase, t) == FirstMatch(phrase, t) # 0

SentenceEnds == {".", "!", "?"}

\* how many characters [^.!?]*[.!?]? takes at the start of a text
RestOfSentence(t) ==
    LET ends == {i \in 1..Len(t) : t[i] \in SentenceEnds}
    IN  IF ends = {} THEN Len(t) ELSE CHOOSE i \in ends : \A j \in ends : i <= j

(* re.sub(pattern, replacement, t, flags=re.IGNORECASE) for a pattern made  *)
(* of a literal phrase, followed by [^.!?]*[.!?]? when to_sentence_end      *)
RECURSIVE Sub(_, _, _, _)
Sub(phrase, to_sentence_end, replacement, t) ==
    LET i == FirstMatch(phrase, t)
        after == SubSeq(t, i + Len(phrase), Len(t))
        taken == IF to_sentence_end THEN RestOfSentence(after) ELSE 0
    IN  IF i = 0 THEN t
        ELSE SubSeq(t, 1, i - 1) \o replacement
                 \o Sub(phrase, to_sentence_end, replacement,
                        SubSeq(after, taken + 1, Len(after)))

JeSuis == <<"J","e"," ","s","u","i","s"," ">>

EnTantQue == <<"e","n"," ","t","a","n","t"," ","q","u","e"," ">>

\* f"Je suis {bot_info['name']}. {bot_info['description']}"
FullIdentity(info) == JeSuis \o info.name \o <<".", " ">> \o info.description

\* f"Je suis {bot_info['name']}"
ShortIdentity(info) == JeSuis \o info.name

\* the `replacements` of post_process_api_response, in the order of the dict
Replacements(info) ==
    << [phrase |-> <<"j","e"," ","s","u","i","s"," ","u","n","e"," ","a","s","s","i","s","t","a","n","t","e"," ","v","i","r","t","u","e","l","l","e">>, to_sentence_end |-> TRUE, replacement |-> FullIdentity(info)],
       [phrase |-> <<"j","e"," ","s","u","i","s"," ","u","n"," ","a","s","s","i","s","t","a","n","t"," ","v","i","r","t","u","e","l">>, to_sentence_end |-> TRUE, replacement |-> FullIdentity(info)],
       [phrase |-> <<"j","e"," ","s","u","i","s"," ","u","n","e"," ","i","a">>, to_sentence_end |-> TRUE, replacement |-> ShortIdentity(info)],
       [phrase |-> <<"j","e"," ","s","u","i","s"," ","c","l","a","u","d","e">>, to_sentence_end |-> TRUE, replacement |-> ShortIdentity(info)],
       [phrase |-> <<"j","e"," ","s","u","i","s"," ","c","h","a","t","g","p","t">>, to_sentence_end |-> TRUE, replacement |-> ShortIdentity(info)],
       [phrase |-> <<"a","s","s","i","s","t","a","n","t","e"," ","v","i","r","t","u","e","l","l","e"," ","s","p","eacute","c","i","a","l","i","s","eacute","e">>, to_sentence_end |-> FALSE, replacement |-> info.name],
       [phrase |-> <<"a","s","s","i","s","t","a","n","t"," ","v","i","r","t","u","e","l"," ","s","p","eacute","c","i","a","l","i","s","eacute">>, to_sentence_end |-> FALSE, replacement |-> info.name],
       [phrase |-> <<"e","n"," ","t","a","n","t"," ","q","u","'","a","s","s","i","s","t","a","n","t","e"," ","v","i","r","t","u","e","l","l","e">>, to_sentence_end |-> FALSE, replacement |-> EnTantQue \o info.name],
       [phrase |-> <<"e","n"," ","t","a","n","t"," ","q","u","'","a","s","s","i","s","t","a","n","t"," ","v","i","r","t","u","e","l">>, to_sentence_end |-> FALSE, replacement |-> EnTantQue \o info.name] >>

\* the loop of post_process_api_response over the first n replacements
RECURSIVE ReplaceAll(_, _, _)
ReplaceAll(replacements, n, t) ==
    IF n = 0 THEN t
    ELSE LET r == replacements[n]
         IN  Sub(r.phrase, r.to_sentence_end, r.replacement,
                 ReplaceAll(replacements, n - 1, t))

post_process_api_response(response_text, info) ==
    ReplaceAll(Replacements(info), Len(Replacements(info)), response_text)

\* generic_phrases of ContextBuilder.post_process_response
generic_phrases ==
    << <<"J","e"," ","s","u","i","s"," ","u","n","e"," ","a","s","s","i","s","t","a","n","t","e"," ","v","i","r","t","u","e","l","l","e">>,
       <<"J","e"," ","s","u","i","s"," ","u","n"," ","a","s","s","i","s","t","a","n","t"," ","v","i","r","t","u","e","l">>,
       <<"J","e"," ","s","u","i","s"," ","u","n","e"," ","I","A">>,
       <<"J","e"," ","s","u","i","s"," ","C","l","a","u","d","e">>,
       <<"J","e"," ","s","u","i","s"," ","C","h","a","t","G","P","T">>,
       <<"J","e"," ","s","u","i","s"," ","u","n"," ","m","o","d","egrave","l","e"," ","d","e"," ","l","a","n","g","a","g","e">>,
       <<"a","s","s","i","s","t","a","n","t","e"," ","v","i","r","t","u","e","l","l","e"," ","c","o","n","ccedil","u","e"," ","p","o","u","r">>,
       <<"a","s","s","i","s","t","a","n","t"," ","v","i","r","t","u","e","l"," ","c","o","n","ccedil","u"," ","p","o","u","r">>,
       <<"a","s","s","i","s","t","a","n","t","e"," ","v","i","r","t","u","e","l","l","e"," ","s","p","eacute","c","i","a","l","i","s","eacute","e">>,
       <<"a","s","s","i","s","t","a","n","t"," ","v","i","r","t","u","e","l"," ","s","p","eacute","c","i","a","l","i","s","eacute">> >>

\* ContextBuilder.post_process_response: the first phrase found is replaced
post_process_response(response, info) ==
    LET found_phrases == {k \in 1..Len(generic_phrases) : Found(generic_phrases[k], response)}
    IN  IF found_phrases = {} THEN response
        ELSE LET first == CHOOSE k \in found_phrases : \A j \in found_phrases : k <= j
             IN  Sub(generic_phrases[first], FALSE, FullIdentity(info), response)

\* the sentences of the replies of the LLM
Sentences ==
    { <<"J","e"," ","s","u","i","s"," ","C","l","a","u","d","e",".">>,
      <<"J","e"," ","s","u","i","s"," ","u","n","e"," ","I","A",".">>,
      <<"J","e"," ","s","u","i","s"," ","u","n"," ","a","s","s","i","s","t","a","n","t"," ","v","i","r","t","u","e","l"," ","s","p","eacute","c","i","a","l","i","s","eacute",".">>,
      <<"I"," ","a","m"," ","a"," ","v","i","r","t","u","a","l"," ","a","s","s","i","s","t","a","n","t"," ","d","e","s","i","g","n","e","d"," ","t","o"," ","h","e","l","p",".">>,
      <<"B","o","n","j","o","u","r"," ","!">>,
      <<"J","e"," ","s","u","i","s"," ","u","n"," ","m","o","d","egrave","l","e"," ","d","e"," ","l","a","n","g","a","g","e",".">>,
      <<"E","n"," ","t","a","n","t"," ","q","u","'","a","s","s","i","s","t","a","n","t"," ","v","i","r","t","u","e","l",","," ","j","e"," ","v","e","n","d","s",".">>,
      <<"J","E"," ","S","U","I","S"," ","C","H","A","T","G","P","T">> }

\* the replies of up to n sentences
RECURSIVE RepliesOf(_)
RepliesOf(n) ==
    IF n = 1 THEN Sentences
    ELSE RepliesOf(n - 1)
            \cup {r \o <<" ">> \o s : r \in RepliesOf(n - 1), s \in Sentences}

\* the bot_info of ContextBuilder._get_bot_info: a configured row, the defaults
BotInfos ==
    { [name |-> <<"A","d","a">>, description |-> <<"A","d","a"," ","v","e","n","d"," ","d","e","s"," ","f","l","e","u","r","s",".">>],
      [name |-> <<"A","s","s","i","s","t","a","n","t">>, description |-> <<"J","e"," ","s","u","i","s"," ","v","o","t","r","e"," ","a","s","s","i","s","t","a","n","t"," ","v","i","r","t","u","e","l",".">>] }

NotProcessed == [by |-> "none", text |-> <<>>]

InitReply ==
    /\ reply = <<>>
    /\ bot_info = [name |-> <<>>, description |-> <<>>]
    /\ corrected = NotProcessed

\* the LLM has replied
GivenReply ==
    /\ reply \in RepliesOf(MaxSentences)
    /\ bot_info \in BotInfos
    /\ corrected = NotProcessed

\* make_api_call_with_user_keys post-processes the message of the provider
PostProcessApiResponse ==
    /\ corrected = NotProcessed
    /\ corrected' = [by |-> "post_process_api_response",
                     text |-> post_process_api_response(reply, bot_info)]
    /\ UNCHANGED <<reply, bot_info>>
    /\ UNCHANGED outsideReply

PostProcessResponse ==
    /\ corrected = NotProcessed
    /\ corrected' = [by |-> "post_process_response",
                     text |-> post_process_response(reply, bot_info)]
    /\ UNCHANGED <<reply, bot_info>>
    /\ UNCHANGED outsideReply

NextPostProcess ==
    \/ PostProcessApiResponse
    \/ PostProcessResponse

-----------------------------------------------------------------------------
(* The provider call of the chat route: make_api_call_with_user_keys and    *)
(* the adapters call_openai_api, call_mistral_api, call_claude_api          *)
(* (app/routes.py).  A Python dict is a record wrapped as [kind |-> "dict"], *)
(* its keys are the fields of the record; an exception that leaves a        *)
(* function is Raised(what).                                                *)

Dict(value) == [kind |-> "dict", value |-> value]

\* {'error': text}
ErrorDict(text) == Dict([error |-> text])

\* {'message': message, 'usage': {...}}
MessageDict(message) == Dict([message |-> message, usage |-> "usage"])

\* what a function that ended by `raise` or `return` hands to `except Exception`
Try(outcome, handler_result) ==
    IF outcome.kind = "raise" THEN handler_result ELSE outcome

\* a handler of make_api_call_with_user_keys that lets the exception through
ApiCallReraise(e) == e

\* `except Exception as e: return {'error': str(e)}`
ApiCallExcept(e) == ErrorDict(e.error)

\* `except Exception as e: return {'error': f'Erreur X: {str(e)}'}`
AdapterExcept(e) == ErrorDict(e.error)

(* What the provider does with a request.  For the SDK clients (openai,     *)
(* anthropic) every failure is an exception of the SDK.                     *)
SdkOutcomes ==
    {"ok", "none_content", "empty_choices", "import_error", "connection_error",
     "status_error"}

\* for requests.post to the Mistral endpoint
HttpOutcomes ==
    {"ok", "none_content", "body_without_choices", "connection_error",
     "status_json_message", "status_json_no_message", "status_not_json",
     "status_invalid_json", "status_json_list"}

\* the message of the provider, None for a reply without text
MessageOf(outcome, text) == IF outcome = "none_content" THEN NoneValue ELSE text

\* the try block of call_openai_api and call_claude_api
SdkCall(outcome, text) ==
    CASE outcome = "import_error" -> Raised("ImportError")
      [] outcome = "connection_error" -> Raised("APIConnectionError")
      [] outcome = "status_error" -> Raised("APIStatusError")
      [] outcome = "empty_choices" -> Raised("IndexError")
      [] OTHER -> MessageDict(MessageOf(outcome, text))

call_openai_api(outcome, text) ==
    LET r == SdkCall(outcome, text) IN Try(r, AdapterExcept(r))

call_claude_api(outcome, text) ==
    LET r == SdkCall(outcome, text) IN Try(r, AdapterExcept(r))

\* the try block of call_mistral_api
MistralCall(outcome, text) ==
    CASE outcome = "connection_error" -> Raised("ConnectionError")
      [] outcome = "body_without_choices" -> Raised("KeyError")
      [] outcome = "status_json_message" -> ErrorDict("Erreur Mistral: Unauthorized")
      [] outcome \in {"status_json_no_message", "status_not_json"} ->
             ErrorDict("Erreur Mistral: Erreur HTTP")
      [] outcome = "status_invalid_json" -> Raised("JSONDecodeError")
      [] outcome = "status_json_list" -> Raised("AttributeError")
      [] OTHER -> MessageDict(MessageOf(outcome, text))

call_mistral_api(outcome, text) ==
    LET r == MistralCall(outcome, text) IN Try(r, AdapterExcept(r))

\* the user_config the route passes
UserConfigs ==
    { [kind |-> "dict", provider |-> "openai"],
      [kind |-> "dict", provider |-> "mistral"],
      [kind |-> "dict", provider |-> "claude"],
      [kind |-> "dict", provider |-> "gemini"],
      [kind |-> "dict", provider |-> "missing"],
      [kind |-> "None", provider |-> "missing"] }

\* the outcomes a provider can have
OutcomesOf(provider) ==
    IF provider \in {"openai", "claude"} THEN SdkOutcomes
    ELSE IF provider = "mistral" THEN HttpOutcomes
    ELSE {"ok"}

\* the complexity the route passes: an int, or None out of a metadata dict
Complexities ==
    {[kind |-> "int", value |-> value] : value \in {-1, 0, 3, 4}} \cup {[kind |-> "None"]}

\* the bot_info the route passes: None, a dict, a dict without 'name'
BotInfoArgs ==
    {[kind |-> "None"], [kind |-> "no_name"]}
        \cup {[kind |-> "dict", info |-> info] : info \in BotInfos}

\* the texts of the provider
ProviderTexts == {<<"J","e"," ","s","u","i","s"," ","C","l","a","u","d","e",".">>, <<"B","o","n","j","o","u","r"," ","!">>}

\* max(0, min(complexity, 3))
Clamp(complexity) ==
    IF complexity < 0 THEN 0 ELSE IF complexity > 3 THEN 3 ELSE complexity

\* the adapter make_api_call_with_user_keys dispatches to
Adapter(provider, outcome, text) ==
    CASE provider = "openai" -> call_openai_api(outcome, text)
      [] provider = "mistral" -> call_mistral_api(outcome, text)
      [] provider = "claude" -> call_claude_api(outcome, text)

\* the post-processing block of make_api_call_with_user_keys
PostProcessed(response, bot_info_arg) ==
    IF "message" \in DOMAIN response.value /\ bot_info_arg.kind # "None"
    THEN IF bot_info_arg.kind = "no_name" THEN Raised("KeyError")
         ELSE IF response.value.message = NoneValue THEN Raised("TypeError")
         ELSE LET corrected_message ==
                      post_process_api_response(response.value.message, bot_info_arg.info)
              IN  Dict([message |-> corrected_message, usage |-> response.value.usage,
                        identity_corrected |->
                            corrected_message # response.value.message])
    ELSE response

\* the try block of make_api_call_with_user_keys
ApiCallBody(user_config, prompts_ok, complexity, bot_info_arg, outcome, text) ==
    IF user_config.kind = "None" THEN Raised("TypeError")
    ELSE IF user_config.provider = "missing" THEN Raised("KeyError")
    ELSE IF ~prompts_ok THEN Raised("AttributeError")
    ELSE IF complexity.kind # "int" THEN Raised("TypeError")
    ELSE IF user_config.provider \notin {"openai", "mistral", "claude"}
    THEN ErrorDict("Provider non supporte")
    ELSE PostProcessed(Adapter(user_config.provider, outcome, text), bot_info_arg)

make_api_call_with_user_keys(user_config, prompts_ok, complexity, bot_info_arg, outcome, text) ==
    LET r == ApiCallBody(user_config, prompts_ok, complexity, bot_info_arg, outcome, text)
    IN  Try(r, ApiCallExcept(r))

NotCalled ==
    [called |-> FALSE, user_config |-> [kind |-> "None", provider |-> "missing"],
     outcome |-> "ok", max_tokens |-> 0,
     adapter |-> NoneValue, ret |-> NoneValue]

InitApi == api = NotCalled

\* token_limits[complexity]
TokenLimits == <<100, 150, 200, 300>>

\* one provider call of the chat route
MakeApiCall ==
    /\ \E user_config \in UserConfigs, prompts_ok \in BOOLEAN,
          complexity \in Complexities,
          bot_info_arg \in BotInfoArgs, text \in ProviderTexts :
          \E outcome \in OutcomesOf(user_config.provider) :
             api' = [called |-> TRUE,
                     user_config |-> user_config,
                     outcome |-> outcome,
                     max_tokens |-> IF complexity.kind = "int"
                                    THEN TokenLimits[Clamp(complexity.value) + 1] ELSE 0,
                     adapter |-> IF user_config.provider \in {"openai", "mistral", "claude"}
                                    /\ user_config.kind = "dict" /\ prompts_ok
                                    /\ complexity.kind = "int"
                                 THEN Adapter(user_config.provider, outcome, text)
                                 ELSE NoneValue,
                     ret |-> make_api_call_with_user_keys(user_config, prompts_ok,
                                 complexity, bot_info_arg, outcome, text)]
    /\ UNCHANGED outsideApi

-----------------------------------------------------------------------------
(* The chat route /api/message (app/routes.py, chatbot).  It asks the flow  *)
(* executor and the response manager itself, then the provider with the     *)
(* keys of the user; it keeps the exchanges with the provider in the        *)
(* session.  An entry of the history is identified by the ordinal of its    *)
(* exchange in the session and holds the stored response; the fields the    *)
(* route copies from its inputs (timestamp, message, complexity, provider,  *)
(* model) are left out.                                                     *)

\* the exchanges with the provider one session is followed for
MaxExchanges == 22

\* the routed requests of the session that are answered without the provider
MaxOtherReplies == 2

\* `if len(session['conversation_history']) > 20` and `[-20:]`
HistoryLimit == 20

\* `conversation_history[-5:]`
ContextWindow == 5

\* `if len(api_response['message']) > 200` and `[:200]`
StoredLength == 200

\* a limit that keeps the oldest entries
LimitHistoryOldest(list) == FirstOf(list, HistoryLimit)

\* `session['conversation_history'][-20:]` when the list is longer than 20
LimitHistory(list) == LastOf(list, HistoryLimit)

\* `api_response['message'][:200] + "..." if len(...) > 200 else api_response['message']`
StoredResponse(message) ==
    IF Len(message) > StoredLength
    THEN SubSeq(message, 1, StoredLength) \o <<".", ".", ".">>
    ELSE message

\* a reply of the provider longer than 200 characters
LongText == [i \in 1..(StoredLength + 1) |-> "x"]

\* what the provider answers at the n-th exchange of the session
ProviderTextAt(n) ==
    CASE n % 3 = 0 -> LongText
      [] n % 3 = 1 -> <<"B","o","n","j","o","u","r"," ","!">>
      [] OTHER -> <<"J","e"," ","s","u","i","s"," ","C","l","a","u","d","e",".">>

\* request.get_json(), data.get("message", "").strip() and current_user
Requests ==
    { [data |-> "none", authenticated |-> TRUE],
      [data |-> "blank_message", authenticated |-> TRUE],
      [data |-> "message", authenticated |-> FALSE],
      [data |-> "message", authenticated |-> TRUE] }

\* has_active_flows, find_matching_flow and execute_flow as the route sees them
FlowStageOutcomes == {"no_active_flow", "empty_content", "content", "raise"}

\* has_configured_responses and find_matching_response as the route sees them
ConfiguredStageOutcomes == {"not_configured", "content", "raise"}

\* get_user_api_config(): None, or the decrypted configuration of the user
RouteConfigs ==
    { [kind |-> "None", provider |-> "missing"],
      [kind |-> "dict", provider |-> "openai"],
      [kind |-> "dict", provider |-> "mistral"],
      [kind |-> "dict", provider |-> "claude"] }

\* context_builder.build_system_prompt: returns (prompts, prompt_metadata) or raises
BuildOutcomes == {"built", "raise"}

\* context_builder._get_bot_info() of the session
RouteBotInfo ==
    [kind |-> "dict",
     info |-> [name |-> <<"A","d","a">>,
               description |-> <<"A","d","a"," ","v","e","n","d"," ","d","e","s"," ","f","l","e","u","r","s",".">>]]

\* jsonify(body), status
Json(status, body, context) == [status |-> status, body |-> body, context |-> context]

\* build_system_prompt was not reached
NoContext == [called |-> FALSE, conversation_history |-> <<>>]

\* the `try` of lines 732-766: the reply it returns, NoneValue when it falls through
EngineReply(flow_outcome, configured_outcome) ==
    IF flow_outcome = "raise" THEN NoneValue
    ELSE IF flow_outcome = "content"
    THEN Json(200, [message |-> "flow_content", mode |-> "flow"], NoContext)
    ELSE IF configured_outcome = "content"
    THEN Json(200, [message |-> "configured_content", mode |-> "configured"], NoContext)
    ELSE NoneValue

\* `except Exception` of the route
Unexpected(context) ==
    Json(500, [message |-> "Une erreur inattendue s'est produite. Veuillez reessayer.",
               error |-> TRUE], context)

\* a route that answers a failure of the provider as a chat message
ApiErrorAsChatMessage(api_response, context) ==
    Json(200, [message |-> <<"Erreur API: ", api_response.value.error>>, error |-> TRUE,
               api_error |-> TRUE], context)

\* `if api_response.get('error'): return jsonify({...}), 500`
ApiErrorReply(api_response, context) ==
    Json(500, [message |-> <<"Erreur API: ", api_response.value.error>>, error |-> TRUE,
               api_error |-> TRUE], context)

\* the last return of the route
UserKeysReply(api_response, context) ==
    Json(200, [message |-> api_response.value.message, mode |-> "user_keys",
               success |-> TRUE,
               identity_corrected |-> api_response.value.identity_corrected], context)

\* the mode of a reply, "none" for a reply without mode
ModeOf(json) == IF "mode" \in DOMAIN json.body THEN json.body.mode ELSE "none"

\* one more routed request, answered with this reply
Count(json) ==
    [total |-> routed.total + 1,
     flow |-> routed.flow + (IF ModeOf(json) = "flow" THEN 1 ELSE 0),
     configured |-> routed.configured + (IF ModeOf(json) = "configured" THEN 1 ELSE 0),
     user_keys |-> routed.user_keys + (IF ModeOf(json) = "user_keys" THEN 1 ELSE 0)]

\* the route returns this reply to a routed request and leaves this history
Returns(json, history) ==
    /\ answered' = json
    /\ conversation_history' = history
    /\ routed' = Count(json)

\* the route returns this reply to a request it rejects
Rejects(json) ==
    /\ answered' = json
    /\ UNCHANGED <<conversation_history, routed>>

\* the entry the route appends for a reply of the provider
Exchange(api_response) ==
    [exchange |-> routed.user_keys + 1,
     response |-> StoredResponse(api_response.value.message)]

\* the route from get_user_api_config() on
LastResort(user_config, build, outcome) ==
    LET context == [called |-> TRUE,
                    conversation_history |-> LastOf(conversation_history, ContextWindow)]
    IN  IF user_config.kind = "None"
        THEN Returns(Json(400, [message |-> "funny_message", error |-> TRUE,
                                config_required |-> TRUE], NoContext),
                     conversation_history)
        ELSE IF build = "raise"
        THEN Returns(Unexpected(context), conversation_history)
        ELSE \E api_response \in {make_api_call_with_user_keys(user_config, TRUE,
                                      [kind |-> "int", value |-> 1], RouteBotInfo, outcome,
                                      ProviderTextAt(routed.user_keys + 1))} :
                IF "error" \in DOMAIN api_response.value
                THEN Returns(ApiErrorReply(api_response, context), conversation_history)
                ELSE Returns(UserKeysReply(api_response, context),
                             LimitHistory(Append(conversation_history,
                                                 Exchange(api_response))))

\* POST /api/message
api_message(request, flow_outcome, configured_outcome, user_config, build, outcome) ==
    IF request.data = "none"
    THEN Rejects(Json(400, [message |-> "Format de donnees invalide", error |-> TRUE], NoContext))
    ELSE IF request.data = "blank_message"
    THEN Rejects(Json(400, [message |-> "Message vide recu", error |-> TRUE], NoContext))
    ELSE IF ~request.authenticated
    THEN Rejects(Json(401, [message |-> "Authentification requise", error |-> TRUE,
                            auth_required |-> TRUE], NoContext))
    ELSE IF EngineReply(flow_outcome, configured_outcome) # NoneValue
    THEN Returns(EngineReply(flow_outcome, configured_outcome), conversation_history)
    ELSE LastResort(user_config, build, outcome)

NoAnswer == Json(0, [message |-> "none"], NoContext)

InitChat ==
    /\ conversation_history = <<>>
    /\ routed = [total |-> 0, flow |-> 0, configured |-> 0, user_keys |-> 0]
    /\ answered = NoAnswer

\* the inputs the route reads on the way of this request
Routed(request) == request.data = "message" /\ request.authenticated

NotRead == [kind |-> "None", provider |-> "missing"]

ApiMessage ==
    /\ \E request \in Requests :
          IF ~Routed(request)
          THEN api_message(request, "raise", "raise", NotRead, "raise", "ok")
          ELSE \E flow_outcome \in FlowStageOutcomes,
                  configured_outcome \in ConfiguredStageOutcomes :
                  IF EngineReply(flow_outcome, configured_outcome) # NoneValue
                  THEN api_message(request, flow_outcome, configured_outcome,
                                   NotRead, "raise", "ok")
                  ELSE \E user_config \in RouteConfigs, build \in BuildOutcomes :
                          \E outcome \in IF user_config.kind = "dict" /\ build = "built"
                                         THEN OutcomesOf(user_config.provider) ELSE {"ok"} :
                             api_message(request, flow_outcome, configured_outcome,
                                         user_config, build, outcome)
    /\ routed'.user_keys <= MaxExchanges
    /\ routed'.total - routed'.user_keys <= MaxOtherReplies
    /\ UNCHANGED outsideChat

-----------------------------------------------------------------------------
(* Flows whose messages hold placeholders: a chain of message and input     *)
(* nodes, each connected to the next, executed by execute_flow.             *)

\* the nodes of a chain
MaxChain == 3

PrixQ == <<"P","r","i","x"," ","{","q","}","!">>

QThenZ == <<"{","q","}","{","z","}">>

NoPlaceholder == <<"{","q"," ","{","}"," ","z","}">>

VarZ == <<"z">>

\* what the flow editor posts for the nodes of a chain
ChainInputs ==
    { [node_type |-> "message", config |-> Config(PrixQ, "equals", <<>>, UserInput)],
      [node_type |-> "message", config |-> Config(QThenZ, "equals", <<>>, UserInput)],
      [node_type |-> "message", config |-> Config(NoPlaceholder, "equals", <<>>, UserInput)],
      [node_type |-> "input",   config |-> Config(<<>>, "equals", <<>>, VarQ)],
      [node_type |-> "input",   config |-> Config(<<>>, "equals", <<>>, VarZ)] }

\* the chains of 1 to MaxChain nodes
Chains == UNION {[1..n -> ChainInputs] : n \in 1..MaxChain}

\* the tables after create_flow, create_node for each node of the chain and
\* create_connection from each node to the next
ChainNodes(chain) ==
    [i \in 1..Len(chain) |->
        [id |-> i, flow_id |-> 1, node_type |-> chain[i].node_type,
         position_y |-> 0, config |-> chain[i].config]]

ChainConnections(chain) ==
    [i \in 1..(Len(chain) - 1) |->
        [id |-> i, source_node_id |-> i, target_node_id |-> i + 1, priority |-> 0]]

InitChain ==
    /\ flows = <<[id |-> 1, is_active |-> TRUE]>>
    /\ \E chain \in Chains :
          /\ nodes = ChainNodes(chain)
          /\ conns = ChainConnections(chain)
    /\ stats = ZeroStats
    /\ pc = "idle"
    /\ found = 0
    /\ walk = NoWalk
    /\ flowRes = NoneValue
    /\ cfgRes = NoneValue
    /\ calls = <<>>
    /\ result = NoneValue

\* flow_executor.execute_flow(flow_id, user_message, user_id) on the chain
ExecuteFlowCall ==
    /\ \E user_message \in Messages : walk' = execute_flow(1, user_message, TRUE)
    /\ UNCHANGED <<flows, nodes, conns, stats, pc, found, flowRes, cfgRes, calls, result>>
    /\ UNCHANGED outsidePipeline

-----------------------------------------------------------------------------
(* Context Builder (app/context_builder.py): the analysis of a message,     *)
(* check_personal_questions (app/bot_answers.py), the sections of the       *)
(* system prompt.                                                           *)

MsgQueSaisTu ==
    <<"Q","u","e"," ","s","a","i","s","-","t","u"," ","f","a","i","r","e"," ","?">>

MsgQuiEsTu ==
    <<"Q","u","i"," ","e","s","-","t","u"," ","?">>

MsgMetier ==
    <<"Q","u","e","l"," ","e","s","t"," ","t","o","n"," ","m","eacute","t","i","e","r"," ","?">>

MsgParleDeToi ==
    <<"P","a","r","l","e"," ","d","e"," ","t","o","i">>

MsgPhotosynthese ==
    <<"E","x","p","l","i","q","u","e","-","m","o","i"," ","l","a"," ","p","h","o","t","o","s","y","n","t","h","egrave","s","e">>

MsgPourquoiComment ==
    <<"P","o","u","r","q","u","o","i"," ","e","t"," ","c","o","m","m","e","n","t"," ","e","x","p","l","i","q","u","e","r"," ","l","a"," ","p","h","o","t","o","s","y","n","t","h","egrave","s","e"," ","?">>

MsgTonNom ==
    <<"T","o","n"," ","n","o","m"," ","?">>

simple_patterns ==
    << [category |-> "greetings",
        patterns |-> { <<"s","a","l","u","t">>,
                      <<"b","o","n","j","o","u","r">>,
                      <<"h","e","l","l","o">>, <<"h","i">>,
                      <<"c","o","u","c","o","u">>,
                      <<"b","o","n","s","o","i","r">> }],
       [category |-> "thanks",
        patterns |-> { <<"m","e","r","c","i">>, <<"t","h","a","n","k","s">>,
                      <<"t","h","x">> }],
       [category |-> "goodbye",
        patterns |-> { <<"a","u"," ","r","e","v","o","i","r">>,
                      <<"b","y","e">>,
                      <<"agrave"," ","b","i","e","n","t","ocirc","t">>,
                      <<"g","o","o","d","b","y","e">> }],
       [category |-> "yes_no",
        patterns |-> { <<"o","u","i">>, <<"n","o","n">>, <<"y","e","s">>,
                      <<"n","o">>, <<"o","k">>,
                      <<"d","'","a","c","c","o","r","d">> }] >>

complex_words ==
    { <<"p","o","u","r","q","u","o","i">>, <<"c","o","m","m","e","n","t">>,
      <<"e","x","p","l","i","q","u","e","r">>,
      <<"a","n","a","l","y","s","e","r">>,
      <<"c","o","m","p","a","r","e","r">>,
      <<"eacute","v","a","l","u","e","r">> }

name_keywords ==
    { <<"a","p","p","e","l","l","e">>, <<"a","p","p","e","l","l","e","s">>,
      <<"c","o","m","m","e","n","t"," ","t","u"," ","t","'","a","p","p","e","l","l","e","s">>,
      <<"c","o","m","m","e","n","t"," ","v","o","u","s"," ","a","p","p","e","l","e","z"," ","v","o","u","s">>,
      <<"c","o","m","m","e","n","t"," ","v","o","u","s"," ","v","o","u","s"," ","a","p","p","e","l","e","z">>,
      <<"i","d","e","n","t","i","t","eacute">>, <<"n","o","m">>,
      <<"p","e","u","x"," ","t","u"," ","t","e"," ","p","r","eacute","s","e","n","t","e","r">>,
      <<"p","o","u","v","e","z"," ","v","o","u","s"," ","v","o","u","s"," ","p","r","eacute","s","e","n","t","e","r">>,
      <<"p","r","e","n","o","m">>, <<"p","r","eacute","n","o","m">>,
      <<"p","r","eacute","s","e","n","t","e"," ","t","o","i">>,
      <<"p","r","eacute","s","e","n","t","e","z"," ","v","o","u","s">>,
      <<"q","u","e","l"," ","e","s","t"," ","t","o","n"," ","n","o","m">>,
      <<"q","u","e","l"," ","e","s","t"," ","v","o","t","r","e"," ","n","o","m">>,
      <<"q","u","i"," ","e","s"," ","t","u">>,
      <<"q","u","i"," ","e","s","-","t","u">>,
      <<"q","u","i"," ","v","o","u","s"," ","ecirc","t","e","s">>,
      <<"q","u","i"," ","ecirc","t","e","s"," ","v","o","u","s">>,
      <<"q","u","i"," ","ecirc","t","e","s","-","v","o","u","s">>,
      <<"t"," ","a","p","p","e","l","l","e","s">>,
      <<"t","'","a","p","p","e","l","l","e","s">>,
      <<"t","e"," ","n","o","m","m","e","r">>,
      <<"t","o","n"," ","n","o","m">>,
      <<"v","o","t","r","e"," ","n","o","m">> }

job_keywords ==
    { <<"a","c","t","i","v","i","t","e">>,
      <<"a","c","t","i","v","i","t","eacute">>, <<"b","o","u","l","o","t">>,
      <<"c","o","m","m","e","n","t"," ","t","u"," ","p","e","u","x"," ","m","'","a","i","d","e","r">>,
      <<"c","o","m","m","e","n","t"," ","v","o","u","s"," ","p","o","u","v","e","z"," ","m","'","a","i","d","e","r">>,
      <<"c","o","m","p","e","t","e","n","c","e">>,
      <<"c","o","m","p","eacute","t","e","n","c","e">>,
      <<"d","o","m","a","i","n","e">>,
      <<"e","n"," ","q","u","o","i"," ","t","u"," ","p","e","u","x"," ","a","i","d","e","r">>,
      <<"e","n"," ","q","u","o","i"," ","v","o","u","s"," ","p","o","u","v","e","z"," ","a","i","d","e","r">>,
      <<"f","a","i","s"," ","t","u"," ","d","a","n","s"," ","l","a"," ","v","i","e">>,
      <<"f","a","i","t","e","s"," ","v","o","u","s"," ","d","a","n","s"," ","l","a"," ","v","i","e">>,
      <<"f","o","n","c","t","i","o","n">>, <<"j","o","b">>,
      <<"m","e","t","i","e","r">>, <<"m","eacute","t","i","e","r">>,
      <<"o","c","c","u","p","a","t","i","o","n">>,
      <<"p","r","o","f","e","s","s","i","o","n">>,
      <<"q","u","e"," ","f","a","i","s"," ","t","u">>,
      <<"q","u","e"," ","f","a","i","s","-","t","u">>,
      <<"q","u","e"," ","f","a","i","t","e","s"," ","v","o","u","s">>,
      <<"q","u","e","l"," ","e","s","t"," ","t","o","n"," ","r","ocirc","l","e">>,
      <<"q","u","e","l"," ","e","s","t"," ","v","o","t","r","e"," ","r","ocirc","l","e">>,
      <<"r","o","l","e">>, <<"r","ocirc","l","e">>,
      <<"s","p","e","c","i","a","l","i","t","e">>,
      <<"s","p","eacute","c","i","a","l","i","t","eacute">>,
      <<"t","a"," ","p","r","o","f","e","s","s","i","o","n">>,
      <<"t","o","n"," ","m","e","t","i","e","r">>,
      <<"t","o","n"," ","t","r","a","v","a","i","l">>,
      <<"t","r","a","v","a","i","l">>,
      <<"t","u"," ","f","a","i","s"," ","q","u","o","i">>,
      <<"v","o","t","r","e"," ","m","eacute","t","i","e","r">>,
      <<"v","o","t","r","e"," ","p","r","o","f","e","s","s","i","o","n">>,
      <<"v","o","t","r","e"," ","t","r","a","v","a","i","l">> }

capability_keywords ==
    { <<"c","o","m","m","e","n","t"," ","t","u"," ","m","'","a","i","d","e","s">>,
      <<"c","o","m","m","e","n","t"," ","v","o","u","s"," ","m","'","a","i","d","e","z">>,
      <<"p","o","u","r","q","u","o","i"," ","t","u"," ","e","s"," ","l","agrave">>,
      <<"p","o","u","r","q","u","o","i"," ","v","o","u","s"," ","ecirc","t","e","s"," ","l","agrave">>,
      <<"q","u","e"," ","s","a","i","s"," ","t","u"," ","f","a","i","r","e">>,
      <<"q","u","e"," ","s","a","v","e","z"," ","v","o","u","s"," ","f","a","i","r","e">>,
      <<"t","e","s"," ","c","a","p","a","c","i","t","eacute","s">>,
      <<"t","e","s"," ","c","o","m","p","eacute","t","e","n","c","e","s">>,
      <<"t","u"," ","p","e","u","x"," ","f","a","i","r","e"," ","q","u","o","i">>,
      <<"v","o","s"," ","c","a","p","a","c","i","t","eacute","s">>,
      <<"v","o","s"," ","c","o","m","p","eacute","t","e","n","c","e","s">>,
      <<"v","o","u","s"," ","p","o","u","v","e","z"," ","f","a","i","r","e"," ","q","u","o","i">>,
      <<"agrave"," ","q","u","o","i"," ","t","u"," ","s","e","r","s">>,
      <<"agrave"," ","q","u","o","i"," ","v","o","u","s"," ","s","e","r","v","e","z">> }

presentation_keywords ==
    { <<"d","i","s"," ","m","o","i"," ","q","u","i"," ","t","u"," ","e","s">>,
      <<"d","i","t","e","s"," ","m","o","i"," ","q","u","i"," ","v","o","u","s"," ","ecirc","t","e","s">>,
      <<"p","a","r","l","e"," ","d","e"," ","t","o","i">>,
      <<"p","a","r","l","e","z"," ","d","e"," ","v","o","u","s">>,
      <<"p","r","eacute","s","e","n","t","e"," ","t","o","i">>,
      <<"p","r","eacute","s","e","n","t","e","z"," ","v","o","u","s">>,
      <<"r","a","c","o","n","t","e"," ","m","o","i"," ","q","u","i"," ","t","u"," ","e","s">>,
      <<"r","a","c","o","n","t","e","z"," ","m","o","i"," ","q","u","i"," ","v","o","u","s"," ","ecirc","t","e","s">> }

JeMappelle == <<"J","e"," ","m","'","a","p","p","e","l","l","e"," ">>

\* str.count of one character
CountChar(t, c) == Cardinality({i \in 1..Len(t) : t[i] = c})

\* the complex_words that are substrings of a text
ComplexWordsIn(t) == Cardinality({word \in complex_words : Contains(word, t)})

\* the `analysis` dict _analyze_message_type starts from
ComplexAnalysis ==
    [is_simple |-> FALSE, category |-> "complex", needs_knowledge |-> TRUE,
     needs_vocabulary |-> TRUE, needs_examples |-> TRUE, estimated_complexity |-> 2]

\* ContextBuilder._analyze_message_type
analyze_message_type(message) ==
    LET message_lower == Strip(Lower(message))
        message_words == WordList(message_lower)
        matching == {i \in 1..Len(simple_patterns) :
                        \E pattern \in simple_patterns[i].patterns :
                            Contains(pattern, message_lower)}
        first == CHOOSE i \in matching : \A j \in matching : i <= j
        complexity_score ==
            Plus(Plus(Minimum(Ratio(Len(message_words), 20), One),
                      Ratio(ComplexWordsIn(message_lower), 2)),
                 Ratio(3 * CountChar(message, "?"), 10))
    IN  IF matching # {} /\ Len(message_words) <= 3
        THEN [is_simple |-> TRUE, category |-> simple_patterns[first].category,
              needs_knowledge |-> FALSE, needs_vocabulary |-> FALSE,
              needs_examples |-> FALSE, estimated_complexity |-> 0]
        ELSE IF Greater(Half, complexity_score)
        THEN [ComplexAnalysis EXCEPT !.estimated_complexity = 0,
                                     !.needs_examples = FALSE,
                                     !.needs_vocabulary = (Len(message_words) > 5)]
        ELSE IF Greater(One, complexity_score)
        THEN [ComplexAnalysis EXCEPT !.estimated_complexity = 1]
        ELSE IF Greater(Ratio(2, 1), complexity_score)
        THEN ComplexAnalysis
        ELSE [ComplexAnalysis EXCEPT !.estimated_complexity = 3]

\* ContextBuilder._estimate_complexity
estimate_complexity(message, has_knowledge, is_personal) ==
    LET length_score == Minimum(Ratio(Len(message), 100), One)
        complex_score == Ratio(3 * ComplexWordsIn(Lower(message)), 10)
        question_score == Ratio(3 * CountChar(message, "?"), 10)
        knowledge_bonus == IF has_knowledge THEN Ratio(-3, 10) ELSE Zero
        total == Plus(Plus(Plus(length_score, complex_score), question_score),
                      knowledge_bonus)
    IN  IF is_personal THEN 0
        ELSE IF Greater(Half, total) THEN 0
        ELSE IF Greater(One, total) THEN 1
        ELSE IF Greater(Ratio(2, 1), total) THEN 2
        ELSE 3

\* check_personal_questions (app/bot_answers.py); a later category overwrites an earlier one
check_personal_questions(message, info) ==
    LET normalized_message == normalize_text(message)
        Asked(keywords) == \E keyword \in keywords : Contains(keyword, normalized_message)
        question_type == IF Asked(presentation_keywords) THEN "presentation"
                         ELSE IF Asked(capability_keywords) THEN "capabilities"
                         ELSE IF Asked(job_keywords) THEN "profession"
                         ELSE IF Asked(name_keywords) THEN "identity"
                         ELSE "none"
        confidence == IF question_type = "capabilities" THEN Ratio(8, 10) ELSE Ratio(9, 10)
        suggested_response ==
            IF question_type = "presentation"
            THEN JeMappelle \o info.name \o <<".", " ">> \o info.description
            ELSE IF question_type = "capabilities"
            THEN JeSuis \o info.name \o <<".", " ">> \o info.description
            ELSE IF question_type = "profession" THEN info.description
            ELSE JeMappelle \o info.name \o <<".">>
    IN  IF message = <<>> \/ question_type = "none" \/ suggested_response = <<>>
        THEN NoneValue
        ELSE [kind |-> "dict", type |-> question_type, confidence |-> confidence,
              direct_response |-> suggested_response,
              max_tokens |-> IF question_type = "presentation" THEN 80 ELSE 50]

\* one section of the system prompt: which block it is and the values its f-string takes
Section(block, values) == [block |-> block, values |-> values]

(* ContextBuilder._assemble_adaptive_prompt: the sections it joins with     *)
(* blank lines, in order                                                    *)
assemble_adaptive_prompt(bot_info_, response_config, examples, vocabulary, knowledge, personal_context, complexity) ==
    LET identity_section == Section("identity", <<bot_info_.name, bot_info_.description>>)
    IN  IF /\ personal_context # NoneValue
           /\ Greater(personal_context.confidence, Ratio(8, 10))
           /\ personal_context.direct_response # <<>>
        THEN <<identity_section,
               Section("exact_response", <<personal_context.direct_response>>)>>
        ELSE <<identity_section>>
             \o (IF complexity >= 1
                 THEN <<Section("style", <<response_config.style, response_config.level,
                                           bot_info_.name>>)>>
                 ELSE <<>>)
             \o (IF vocabulary # <<>> /\ complexity >= 1
                 THEN <<Section("vocabulary", <<FirstOf(vocabulary, 3), bot_info_.name>>)>>
                 ELSE <<>>)
             \o (IF knowledge.has_knowledge /\ complexity >= 2
                 THEN <<Section("knowledge", <<FirstOf(knowledge.faqs, 1)>>)>>
                 ELSE <<>>)
             \o (IF examples # <<>> /\ complexity >= 2
                 THEN <<Section("example", <<examples[1], bot_info_.name>>)>>
                 ELSE <<>>)
             \o <<Section("final_instructions",
                          <<bot_info_.name, IF complexity <= 1 THEN "Sois concis" ELSE "">>),
                  Section("application", <<bot_info_.name, bot_info_.description>>)>>

\* ContextBuilder._build_simple_prompt
build_simple_prompt(user_message, message_type, bot_info_) ==
    [prompts |-> [system |-> <<Section("simple", <<bot_info_.name, bot_info_.description,
                                                   IF message_type.category = "yes_no"
                                                   THEN "" ELSE message_type.category>>)>>,
                  user |-> user_message],
     metadata |-> [complexity |-> 0, has_examples |-> FALSE, has_faqs |-> FALSE,
                   has_knowledge |-> FALSE, is_personal |-> FALSE, knowledge_score |-> 0]]

NoKnowledge == [has_knowledge |-> FALSE, relevance_score |-> 0, faqs |-> <<>>]

(* ContextBuilder._build_enriched_prompt; `stored` is what the lookups of    *)
(* the examples, the FAQs, the knowledge and the vocabulary return when     *)
(* they are made, info what get_bot_info returns to check_personal_questions *)
build_enriched_prompt(user_message, bot_info_, info, response_config, stored) ==
    LET personal_question_context == check_personal_questions(user_message, info)
        message_analysis == analyze_message_type(user_message)
        relevant_examples == IF message_analysis.needs_examples
                             THEN FirstOf(stored.examples, 2) ELSE <<>>
        knowledge_results == IF message_analysis.needs_knowledge
                             THEN stored.knowledge ELSE NoKnowledge
        relevant_faqs == IF message_analysis.needs_knowledge
                         THEN FirstOf(stored.faqs, 2) ELSE <<>>
        vocabulary_rules == IF message_analysis.needs_vocabulary
                            THEN stored.vocabulary ELSE <<>>
        complexity == estimate_complexity(user_message, knowledge_results.has_knowledge,
                                          personal_question_context # NoneValue)
    IN  [prompts |-> [system |-> assemble_adaptive_prompt(bot_info_, response_config,
                                     relevant_examples, vocabulary_rules,
                                     knowledge_results, personal_question_context,
                                     complexity),
                      user |-> user_message],
         metadata |-> [complexity |-> complexity,
                       has_examples |-> relevant_examples # <<>>,
                       has_faqs |-> relevant_faqs # <<>>,
                       has_knowledge |-> knowledge_results.has_knowledge,
                       is_personal |-> personal_question_context # NoneValue,
                       knowledge_score |-> knowledge_results.relevance_score]]

\* ContextBuilder.build_system_prompt
build_system_prompt(user_message, bot_info_, info, response_config, stored) ==
    LET message_type == analyze_message_type(user_message)
    IN  IF message_type.is_simple
        THEN build_simple_prompt(user_message, message_type, bot_info_)
        ELSE build_enriched_prompt(user_message, bot_info_, info, response_config, stored)

\* the messages the prompt is built for
PromptMessages ==
    {MsgQueSaisTu, MsgQuiEsTu, MsgMetier, MsgParleDeToi, MsgPhotosynthese,
     MsgPourquoiComment, MsgTonNom, MsgBonjour}

\* _get_response_config without a BotResponses row
ResponseConfigs == {[style |-> "professional", level |-> "standard"]}

\* what the tables hold for the lookups of _build_enriched_prompt
Stores ==
    [examples : {<<>>, <<[trigger |-> "horaires", response |-> "Nous sommes ouverts 9h-18h"]>>},
     faqs : {<<>>, <<[question |-> "Livrez-vous ?", answer |-> "Oui."]>>},
     knowledge : {NoKnowledge,
                  [has_knowledge |-> TRUE, relevance_score |-> 1,
                   faqs |-> <<[question |-> "Livrez-vous ?", answer |-> "Oui."]>>]},
     vocabulary : {<<>>, <<[term |-> "bouquet", meaning |-> "composition florale"]>>}]

NotBuilt ==
    [called |-> FALSE, message |-> <<>>, personal |-> NoneValue, analysis |-> ComplexAnalysis,
     ret |-> [prompts |-> [system |-> <<>>, user |-> <<>>],
              metadata |-> [complexity |-> 0, has_examples |-> FALSE, has_faqs |-> FALSE,
                            has_knowledge |-> FALSE, is_personal |-> FALSE,
                            knowledge_score |-> 0]]]

InitPrompt == built = NotBuilt

\* one call of context_builder.build_system_prompt(user_message, session_context)
BuildSystemPrompt ==
    /\ \E user_message \in PromptMessages, bot_info_ \in BotInfos, info \in BotInfos,
          response_config \in ResponseConfigs, stored \in Stores :
          built' = [called |-> TRUE, message |-> user_message,
                    personal |-> check_personal_questions(user_message, info),
                    analysis |-> analyze_message_type(user_message),
                    ret |-> build_system_prompt(user_message, bot_info_, info,
                                                response_config, stored)]
    /\ UNCHANGED outsidePrompt

-----------------------------------------------------------------------------
(* Knowledge Integrator (app/knowledge_integrator.py): search_knowledge and *)
(* the three searches it sums.                                              *)

stop_words ==
    { <<"l","e">>, <<"l","a">>, <<"l","e","s">>, <<"u","n">>,
      <<"u","n","e">>, <<"d","e","s">>, <<"d","e">>, <<"d","u">>,
      <<"e","t">>, <<"o","u">>, <<"m","a","i","s">>, <<"d","o","n","c">>,
      <<"o","r">>, <<"n","i">>, <<"c","a","r">>, <<"agrave">>,
      <<"d","a","n","s">>, <<"p","o","u","r">>, <<"s","u","r">>,
      <<"a","v","e","c">>, <<"s","a","n","s">> }

QueryLivraison == <<"L","i","v","r","a","i","s","o","n"," ","d","e"," ","f","l","e","u","r","s"," ","?">>

QueryRetour == <<"R","e","t","o","u","r"," ","d","u"," ","c","o","l","i","s">>

FaqQuestion == <<"L","i","v","r","e","z","-","v","o","u","s"," ","d","e","s"," ","f","l","e","u","r","s"," ","?">>

FaqAnswer == <<"O","u","i",","," ","l","i","v","r","a","i","s","o","n"," ","d","e","s"," ","f","l","e","u","r","s"," ","e","n"," ","2","4","h",".">>

FaqHorairesQuestion == <<"Q","u","e","l","s"," ","h","o","r","a","i","r","e","s"," ","?">>

FaqHorairesAnswer == <<"9","h","-","1","8","h">>

KeywordLivraison == <<"L","i","v","r","a","i","s","o","n">>

DocTitle == <<"T","a","r","i","f","s">>

DocContent == <<"T","a","r","i","f","s"," ","d","e"," ","l","i","v","r","a","i","s","o","n">>

WordRetour == <<"r","e","t","o","u","r">>

WordColis == <<"C","O","L","I","S">>

PatternRetour == <<"r","e","t","o","u","r">>

Space == <<" ">>

\* `if len(content) > 1000`
LongContent == 1000

\* the limits search_knowledge is called with: 3 by the Context Builder, 1
SearchLimits == {1, 3}

Times(a, b) == Ratio(a.num * b.num, a.den * b.den)

\* KnowledgeIntegrator._extract_keywords
extract_keywords(t) ==
    LET lowered == Lower(t)
        cleaned == [i \in 1..Len(lowered) |->
                       IF IsWordChar(lowered[i]) \/ lowered[i] \in Whitespace
                       THEN lowered[i] ELSE " "]
    IN  SelectSeq(WordList(cleaned), LAMBDA word : word \notin stop_words /\ Len(word) > 2)

\* str.count(word): the occurrences that do not overlap, from the left
RECURSIVE CountOccurrences(_, _)
CountOccurrences(word, t) ==
    LET i == FirstMatch(word, t)
    IN  IF word = <<>> \/ i = 0 THEN 0
        ELSE 1 + CountOccurrences(word, SubSeq(t, i + Len(word), Len(t)))

\* what one word of the query adds to the score
WordRelevance(word, content_lower) ==
    LET count == CountOccurrences(word, content_lower)
    IN  IF ~Contains(word, content_lower) THEN Zero
        ELSE IF count > 1 THEN Plus(One, Minimum(Ratio(count, 10), Half))
        ELSE One

RECURSIVE WordsRelevance(_, _)
WordsRelevance(query_words, content_lower) ==
    IF query_words = <<>> THEN Zero
    ELSE Plus(WordRelevance(Head(query_words), content_lower),
              WordsRelevance(Tail(query_words), content_lower))

\* KnowledgeIntegrator._calculate_relevance
calculate_relevance(query_words, content, keywords) ==
    LET lowered_words == {Lower(query_words[i]) : i \in 1..Len(query_words)}
        bonus == Cardinality({i \in 1..Len(keywords) : Lower(keywords[i]) \in lowered_words})
        score == Plus(WordsRelevance(query_words, Lower(content)), Ratio(2 * bonus, 1))
    IN  IF Len(content) > LongContent THEN Times(score, Ratio(8, 10)) ELSE score

\* one condition of condition_rules; a type that is not known passes
ConditionHolds(query, condition) ==
    IF condition.type = "contains"
    THEN IF condition.is_list
         THEN \E i \in 1..Len(condition.value) :
                 Contains(Lower(condition.value[i]), Lower(query))
         ELSE Contains(Lower(condition.value), Lower(query))
    ELSE IF condition.type = "regex"
    THEN FirstMatch(condition.value, query) # 0
    ELSE IF condition.type = "min_length"
    THEN Len(query) >= condition.value
    ELSE TRUE

\* KnowledgeIntegrator._check_rule_conditions; a regex condition is a literal phrase
check_rule_conditions(query, conditions) ==
    /\ conditions # <<>>
    /\ \A i \in 1..Len(conditions) : ConditionHolds(query, conditions[i])

\* list.sort(key=priority, reverse=True): stable, the larger priority first
RECURSIVE SortByPriority(_)
SortByPriority(list) ==
    IF list = <<>> THEN <<>>
    ELSE LET first == CHOOSE i \in 1..Len(list) :
                         /\ \A j \in 1..Len(list) : list[j].priority <= list[i].priority
                         /\ \A j \in 1..(i - 1) : list[j].priority < list[i].priority
         IN  <<list[first]>> \o SortByPriority(SubSeq(list, 1, first - 1)
                                                \o SubSeq(list, first + 1, Len(list)))

\* KnowledgeIntegrator._search_faqs
search_faqs(query, limit, faqs, query_raises) ==
    LET query_words == extract_keywords(query)
        Score(faq) == calculate_relevance(query_words,
                                          faq.question \o Space \o faq.answer,
                                          faq.keyword_list)
        kept == SelectSeq(faqs, LAMBDA faq : Greater(Score(faq), Zero))
        scored_faqs == [i \in 1..Len(kept) |->
                           [id |-> kept[i].id, has_score |-> TRUE, score |-> Score(kept[i])]]
    IN  IF query_raises THEN <<>> ELSE FirstOf(SortByScore(scored_faqs), limit)

\* KnowledgeIntegrator._search_rules: the items have no 'score' key
search_rules(query, limit, rules, query_raises) ==
    LET active == SelectSeq(rules, LAMBDA rule : rule.is_active)
        kept == SelectSeq(active,
                          LAMBDA rule : check_rule_conditions(query, rule.condition_rules))
        applicable_rules == [i \in 1..Len(kept) |->
                                [id |-> kept[i].id, has_score |-> FALSE,
                                 priority |-> kept[i].priority]]
    IN  IF query_raises THEN <<>> ELSE FirstOf(SortByPriority(applicable_rules), limit)

\* KnowledgeIntegrator._search_documents
search_documents(query, limit, documents, query_raises) ==
    LET query_words == extract_keywords(query)
        Score(doc) == calculate_relevance(query_words, doc.title \o Space \o doc.content,
                                          <<>>)
        kept == SelectSeq(documents,
                          LAMBDA doc : doc.content # <<>> /\ Greater(Score(doc), Zero))
        scored_docs == [i \in 1..Len(kept) |->
                           [id |-> kept[i].id, has_score |-> TRUE, score |-> Score(kept[i])]]
    IN  IF query_raises THEN <<>> ELSE FirstOf(SortByScore(scored_docs), limit)

\* sum(item.get('score', 0) for item in items)
RECURSIVE SumOfScores(_)
SumOfScores(items) ==
    IF items = <<>> THEN Zero
    ELSE Plus(IF Head(items).has_score THEN Head(items).score ELSE Zero,
              SumOfScores(Tail(items)))

\* KnowledgeIntegrator.search_knowledge; raised holds the searches whose query raises
search_knowledge(query, max_results, base, raised) ==
    LET faqs == search_faqs(query, max_results, base.faqs, "faqs" \in raised)
        rules == search_rules(query, max_results, base.rules, "rules" \in raised)
        documents == search_documents(query, max_results, base.documents,
                                      "documents" \in raised)
        total_score == Plus(Plus(SumOfScores(faqs), SumOfScores(rules)),
                            SumOfScores(documents))
    IN  [faqs |-> faqs, rules |-> rules, documents |-> documents,
         relevance_score |-> total_score, has_knowledge |-> Greater(total_score, Zero)]

\* the rows the tables are filled from
FaqRows ==
    <<[id |-> 1, question |-> FaqQuestion, answer |-> FaqAnswer,
       keyword_list |-> <<KeywordLivraison>>],
      [id |-> 2, question |-> FaqHorairesQuestion, answer |-> FaqHorairesAnswer,
       keyword_list |-> <<>>]>>

RuleRows ==
    <<[id |-> 1, is_active |-> TRUE, priority |-> 1,
       condition_rules |-> <<[type |-> "contains", is_list |-> TRUE,
                              value |-> <<WordRetour, WordColis>>]>>],
      [id |-> 2, is_active |-> TRUE, priority |-> 2,
       condition_rules |-> <<[type |-> "regex", is_list |-> FALSE, value |-> PatternRetour],
                             [type |-> "min_length", is_list |-> FALSE, value |-> 10]>>],
      [id |-> 3, is_active |-> FALSE, priority |-> 3,
       condition_rules |-> <<[type |-> "contains", is_list |-> FALSE,
                              value |-> WordRetour]>>]>>

DocumentRows ==
    <<[id |-> 1, title |-> DocTitle, content |-> DocContent],
      [id |-> 2, title |-> DocContent, content |-> <<>>]>>

\* the rows of a table whose ids are in a set, in id order
RowsIn(rows, ids) == SelectSeq(rows, LAMBDA row : row.id \in ids)

KnowledgeBases ==
    {[faqs |-> RowsIn(FaqRows, f), rules |-> RowsIn(RuleRows, r),
      documents |-> RowsIn(DocumentRows, d)] :
        f \in SUBSET {1, 2}, r \in SUBSET {1, 2, 3}, d \in SUBSET {1, 2}}

Queries == {QueryLivraison, QueryRetour, MsgBonjour}

NotSearched ==
    [called |-> FALSE, query |-> <<>>,
     results |-> [faqs |-> <<>>, rules |-> <<>>, documents |-> <<>>,
                  relevance_score |-> Zero, has_knowledge |-> FALSE]]

InitKnowledge ==
    /\ knowledge_base = [faqs |-> <<>>, rules |-> <<>>, documents |-> <<>>]
    /\ searched = NotSearched

\* any content of the three tables
InitKnowledgeBase ==
    /\ knowledge_base \in KnowledgeBases
    /\ searched = NotSearched

\* one call of knowledge_integrator.search_knowledge(query, max_results)
SearchKnowledgeCall ==
    /\ \E query \in Queries, max_results \in SearchLimits,
          raised \in SUBSET {"faqs", "rules", "documents"} :
          searched' = [called |-> TRUE, query |-> query,
                       results |-> search_knowledge(query, max_results, knowledge_base,
                                                    raised)]
    /\ UNCHANGED knowledge_base
    /\ UNCHANGED outsideKnowledge

-----------------------------------------------------------------------------

InitPipeline ==
    /\ flows = <<>>
    /\ nodes = <<>>
    /\ conns = <<>>
    /\ stats = ZeroStats
    /\ pc = "idle"
    /\ found = 0
    /\ walk = NoWalk
    /\ flowRes = NoneValue
    /\ cfgRes = NoneValue
    /\ calls = <<>>
    /\ result = NoneValue

Init ==
    /\ InitPipeline
    /\ InitSettings
    /\ InitResponses
    /\ InitText
    /\ InitReply
    /\ InitApi
    /\ InitChat
    /\ InitCache
    /\ InitPrompt
    /\ InitKnowledge

Next ==
    \/ EditFlows
    \/ GetResponseStart
    \/ TryFlowFind
    \/ TryFlowExec
    \/ ConfiguredStage
    \/ ApiStage
    \/ Fallback

Spec == Init /\ [][Next]_vars

SpecEditor == Init /\ [][EditSeveralFlows]_vars

SpecSettings == Init /\ [][NextSettings]_vars

SpecIdentity == Init /\ [][NextIdentity]_vars

SpecResponses == Init /\ [][NextResponses]_vars

\* normalize_text is called with any text of the alphabet
InitNormalize ==
    /\ InitPipeline
    /\ InitSettings
    /\ InitResponses
    /\ GivenText
    /\ InitReply
    /\ InitApi
    /\ InitChat
    /\ InitCache
    /\ InitPrompt
    /\ InitKnowledge

SpecNormalize == InitNormalize /\ [][Normalize]_vars

\* the post-processing is given any reply of the provider and any bot_info
InitPostProcess ==
    /\ InitPipeline
    /\ InitSettings
    /\ InitResponses
    /\ InitText
    /\ GivenReply
    /\ InitApi
    /\ InitChat
    /\ InitCache
    /\ InitPrompt
    /\ InitKnowledge

SpecPostProcess == InitPostProcess /\ [][NextPostProcess]_vars

SpecApiCall == Init /\ [][MakeApiCall]_vars

SpecChat == Init /\ [][ApiMessage]_vars

SpecCache == Init /\ [][NextCache]_vars

SpecPrompt == Init /\ [][BuildSystemPrompt]_vars

\* search_knowledge is called on any content of the knowledge tables
InitSearch ==
    /\ InitPipeline
    /\ InitSettings
    /\ InitResponses
    /\ InitText
    /\ InitReply
    /\ InitApi
    /\ InitChat
    /\ InitCache
    /\ InitPrompt
    /\ InitKnowledgeBase

SpecKnowledge == InitSearch /\ [][SearchKnowledgeCall]_vars

\* a flow made of a chain of nodes, executed again and again
InitPlaceholders ==
    /\ InitChain
    /\ InitSettings
    /\ InitResponses
    /\ InitText
    /\ InitReply
    /\ InitApi
    /\ InitChat
    /\ InitCache
    /\ InitPrompt
    /\ InitKnowledge

SpecPlaceholders == InitPlaceholders /\ [][ExecuteFlowCall]_vars

\* get_response calls on a flow made of a chain, and reset_statistics at any point
NextStatistics ==
    \/ GetResponseStart
    \/ TryFlowFind
    \/ TryFlowExec
    \/ ConfiguredStage
    \/ ApiStage
    \/ Fallback
    \/ ResetStatistics

SpecStatistics == InitPlaceholders /\ [][NextStatistics]_vars

-----------------------------------------------------------------------------
(* Properties of get_response *)

Sources == {"flow", "configured", "api", "fallback", "error"}

\* the flow stage yielded non-empty content
FlowYields == walk.ret.kind = "dict" /\ walk.ret.content # <<>>

\* the Response Manager yielded non-empty content
ConfiguredYields == cfgRes.kind = "dict" /\ cfgRes.content # <<>>

(* C1: a call that returns answers from the flow whenever the flow stage    *)
(* yielded non-empty content, from the configured responses only when the   *)
(* flow stage yielded nothing and the Response Manager yielded non-empty    *)
(* content, and from the API only when both earlier stages yielded nothing. *)
C1_StagePriority ==
    pc = "done" =>
        /\ FlowYields => result.source = "flow" /\ result.response = walk.ret.content
        /\ result.source = "configured" =>
              ~FlowYields /\ ConfiguredYields /\ result.response = cfgRes.content
        /\ result.source = "api" => ~FlowYields /\ ~ConfiguredYields

\* a call answered from a flow whose walk emitted a message
C1_FlowAnswered ==
    /\ pc = "done"
    /\ FlowYields
    /\ result.source = "flow"
    /\ Len(walk.context.execution_path) >= 1

(* C2: no exception reaches the caller of get_response: whatever the flow   *)
(* executor, the response manager, the knowledge integrator, the            *)
(* api_manager or the error-message lookup raise, the call returns a dict,  *)
(* and the dict of source 'error' has success False.                        *)
C2_NeverRaises ==
    /\ pc # "raised"
    /\ pc = "done" =>
          /\ result.kind = "dict"
          /\ result.source \in Sources
          /\ result.source = "error" => ~result.success

\* the flow executor raised, the call went on, and a later exception was caught
C2_ErrorReturned ==
    /\ pc = "done"
    /\ walk.outcome = "exception"
    /\ result.source = "error"
    /\ ~result.success

-----------------------------------------------------------------------------
(* Properties of the walk.  The flow tables are not written between the     *)
(* execute_flow of a call and the end of the call, so `walk` is read        *)
(* against the tables it was made from.                                     *)

Walked == walk.outcome \in {"executed", "failed", "running"}

execution_path == walk.context.execution_path

(* C3: execute_flow terminates on every flow graph, cycles and self-loops   *)
(* included, and the walk visits at most 51 nodes.                          *)
C3_WalkBounded ==
    /\ walk.outcome # "running"
    /\ Len(execution_path) <= MaxDepth + 1

\* a walk round a cycle, stopped by the cap after 51 visits
C3_CycleCapped ==
    /\ walk.outcome = "failed"
    /\ Len(execution_path) = MaxDepth + 1
    /\ \E i \in 1..MaxDepth : execution_path[i].node_id = execution_path[i + 1].node_id

(* C4: a walk stopped by the depth cap makes execute_flow return None, the  *)
(* parts accumulated so far dropped, and get_response goes on to the        *)
(* configured stage with nothing returned and nothing counted; the call     *)
(* never ends with source 'flow', and ends with source 'error' only by an   *)
(* exception of the API stage.                                              *)
C4_CapIsNoFlowResponse ==
    [][walk'.outcome = "failed" =>
          /\ walk'.ret = NoneValue
          /\ flowRes' = NoneValue
          /\ pc = "flow_exec" =>
                pc' = "configured_stage" /\ result' = NoneValue /\ stats' = stats
          /\ pc' = "done" =>
                /\ result'.source # "flow"
                /\ result'.source = "error" => result'.error = <<"api_manager.__bool__">>
      ]_vars

\* a capped walk that had emitted a message, and the call answered by the API
C4_CappedThenApi ==
    /\ pc = "done"
    /\ walk.outcome = "failed"
    /\ walk.context.response_parts # <<>>
    /\ result.source = "api"
    /\ cfgRes = NoneValue

StageOrder == <<ExecuteFlow, FindMatchingResponse, SearchKnowledge, GenerateResponse>>

\* the place of a call in the order of the stages
StageRank(call) == CHOOSE k \in 1..Len(StageOrder) : StageOrder[k] = call

Called(call) == \E i \in 1..Len(calls) : calls[i] = call

(* C6: the calls of one get_response are made in the order flow,            *)
(* configured, API, each at most once; once the flow stage has yielded      *)
(* content, find_matching_response, search_knowledge and generate_response  *)
(* are not called, and once the configured stage has yielded content,       *)
(* search_knowledge and generate_response are not called.                   *)
C6_ShortCircuit ==
    /\ \A i \in 1..Len(calls), j \in 1..Len(calls) :
          i < j => StageRank(calls[i]) < StageRank(calls[j])
    /\ FlowYields =>
          ~Called(FindMatchingResponse) /\ ~Called(SearchKnowledge) /\ ~Called(GenerateResponse)
    /\ ConfiguredYields => ~Called(SearchKnowledge) /\ ~Called(GenerateResponse)
    /\ pc = "done" /\ result.source = "flow" => calls = <<ExecuteFlow>>
    /\ pc = "done" /\ result.source = "configured" =>
          ~Called(SearchKnowledge) /\ ~Called(GenerateResponse)

\* a call that ran the three stages in turn and was answered by the API
C6_AllStagesRan ==
    /\ pc = "done"
    /\ result.source = "api"
    /\ calls = StageOrder

\* the ids of the nodes of a flow
FlowNodeIds(flow_id) ==
    {nodes[i].id : i \in {k \in 1..Len(nodes) : nodes[k].flow_id = flow_id}}

\* the connections that leave a node, as indices of the table
Outgoing(node_id) == {j \in 1..Len(conns) : conns[j].source_node_id = node_id}

\* the nodes of a flow without a connection coming in from a node of the flow
NoIncoming(flow_id) ==
    {n \in FlowNodeIds(flow_id) :
        \A j \in 1..Len(conns) :
            FlowOf(conns[j].source_node_id) = flow_id => conns[j].target_node_id # n}

PositionY(node_id) == GetRow(nodes, node_id).position_y

StartId == execution_path[1].node_id

(* C7, as stated: the walk starts at the node without incoming connection,  *)
(* at the one of smallest position_y when there are several, and at the     *)
(* node of smallest position_y of the flow when there is none.              *)
C7_StartsTopmost ==
    Walked =>
        LET candidates == IF NoIncoming(found) # {} THEN NoIncoming(found)
                          ELSE FlowNodeIds(found)
        IN  /\ execution_path # <<>>
            /\ StartId \in candidates
            /\ \A m \in candidates : PositionY(StartId) <= PositionY(m)

(* C7, amended: the walk starts at the first node of flow.nodes without     *)
(* incoming connection, whatever its position_y; when every node has one,   *)
(* at the node of smallest position_y, the first of flow.nodes among equals. *)
C7_StartsFirstWithoutIncoming ==
    Walked =>
        /\ execution_path # <<>>
        /\ StartId \in FlowNodeIds(found)
        /\ IF NoIncoming(found) # {}
           THEN StartId \in NoIncoming(found) /\ \A m \in NoIncoming(found) : StartId <= m
           ELSE \A m \in FlowNodeIds(found) :
                   \/ PositionY(StartId) < PositionY(m)
                   \/ PositionY(StartId) = PositionY(m) /\ StartId <= m

\* two nodes without incoming connection, the walk started at the lower one
C7_StartedBelow ==
    /\ Walked
    /\ Cardinality(NoIncoming(found)) = 2
    /\ \E m \in NoIncoming(found) : PositionY(m) < PositionY(StartId)

(* C8: from a node with several outgoing connections the walk follows the   *)
(* connection of smallest priority, from a condition node whose condition   *)
(* is true as from a message, input, action or api node.                    *)
C8_FollowsSmallestPriority ==
    Walked =>
        \A i \in 1..(Len(execution_path) - 1) :
            \E j \in Outgoing(execution_path[i].node_id) :
                /\ conns[j].target_node_id = execution_path[i + 1].node_id
                /\ \A k \in Outgoing(execution_path[i].node_id) :
                      conns[j].priority <= conns[k].priority

\* the condition of a node, on the message of the walk
ConditionOf(node_id) ==
    LET node == GetRow(nodes, node_id)
    IN  evaluate_condition(walk.context.user_message, node.config.operator, node.config.value)

\* the condition nodes the walk visited and found false
FalseConditions ==
    {n \in {execution_path[i].node_id :
               i \in {k \in 1..Len(execution_path) :
                         execution_path[k].node_type = "condition"}} : ~ConditionOf(n)}

\* the variables set by the input nodes visited before the i-th
VariablesBefore(i) ==
    LET names == {GetRow(nodes, execution_path[j].node_id).config.variable :
                     j \in {k \in 1..(i - 1) : execution_path[k].node_type = "input"}}
    IN  [name \in names |-> walk.context.user_message]

\* the parts emitted by the message nodes visited before the i-th
PartsBefore(i) ==
    LET emitting == SelectSeq([j \in 1..(i - 1) |-> j],
                        LAMBDA j : /\ execution_path[j].node_type = "message"
                                   /\ GetRow(nodes, execution_path[j].node_id).config.message # <<>>)
    IN  [m \in 1..Len(emitting) |->
            replace_variables(GetRow(nodes, execution_path[emitting[m]].node_id).config.message,
                              VariablesBefore(emitting[m]))]

(* C9: a condition node whose condition is false ends the walk: no node is  *)
(* visited after it, and execute_flow returns a result, not None, whose     *)
(* content is the parts accumulated before the condition node.              *)
C9_FalseConditionEndsWalk ==
    Walked =>
        \A n \in FalseConditions :
            /\ \A i \in 1..Len(execution_path) :
                  execution_path[i].node_id = n => i = Len(execution_path)
            /\ walk.outcome = "executed"
            /\ walk.ret.kind = "dict"
            /\ walk.ret.content = Join(PartsBefore(Len(execution_path)))
            /\ walk.ret.execution_path = execution_path

\* a message node, then a condition node that is false and has a connection out
C9_StoppedAtFalseCondition ==
    /\ Walked
    /\ Len(execution_path) = 2
    /\ execution_path[2].node_type = "condition"
    /\ execution_path[2].node_id \in FalseConditions
    /\ Outgoing(execution_path[2].node_id) # {}
    /\ walk.ret.kind = "dict"
    /\ walk.ret.content # <<>>

\* the node visited last passes on along a connection: it is not a condition node
\* whose condition is false
LastPassesOn ==
    execution_path[Len(execution_path)].node_type = "condition"
        => ConditionOf(execution_path[Len(execution_path)].node_id)

(* C10: a walk that comes to a connection whose target node does not exist *)
(* aborts: execute_flow returns None and get_response goes on to the next   *)
(* stage, without answering from the flow and without an error because of   *)
(* it.                                                                      *)
C10_MissingTargetAborts ==
    /\ Walked
    /\ execution_path # <<>>
    /\ LastPassesOn
    /\ Outgoing(execution_path[Len(execution_path)].node_id) # {}
    /\ \A j \in Outgoing(execution_path[Len(execution_path)].node_id) :
          GetRow(nodes, conns[j].target_node_id).id = 0
    => /\ walk.ret = NoneValue
       /\ flowRes = NoneValue
       /\ pc = "done" => result.source # "flow"

-----------------------------------------------------------------------------
(* Properties of the statistics *)

\* no percentage of get_statistics is above 100
WithinTotal(counters) ==
    counters.flow_responses + counters.configured_responses + counters.api_responses
        <= counters.total_requests

(* C26: whatever the interleaving of get_response and reset_statistics,     *)
(* flow_responses + configured_responses + api_responses is at most         *)
(* total_requests, and a reset_statistics leaves the four counters at 0.    *)
C26_CountersWithinTotal ==
    /\ WithinTotal(stats)
    /\ [][/\ WithinTotal(stats')
          /\ stats'.total_requests < stats.total_requests => stats' = ZeroStats]_vars

-----------------------------------------------------------------------------
(* Properties of the placeholders *)

Literal(t) == [kind |-> "literal", text |-> t]

Placeholder(name) == [kind |-> "placeholder", text |-> name]

\* the messages of the chains, cut into literal texts and placeholders
PiecesOf(message) ==
    CASE message = PrixQ -> <<Literal(<<"P","r","i","x"," ">>), Placeholder(VarQ), Literal(<<"!">>)>>
      [] message = QThenZ -> <<Placeholder(VarQ), Placeholder(VarZ)>>
      [] message = NoPlaceholder -> <<Literal(NoPlaceholder)>>

\* a piece as it is written in the message
Written(piece) ==
    IF piece.kind = "literal" THEN piece.text ELSE <<"{">> \o piece.text \o <<"}">>

\* a piece as the message node must emit it
Emitted(piece, variables) ==
    IF piece.kind = "placeholder" /\ piece.text \in DOMAIN variables
    THEN variables[piece.text]
    ELSE Written(piece)

RECURSIVE Concat(_)
Concat(texts) == IF texts = <<>> THEN <<>> ELSE Head(texts) \o Concat(Tail(texts))

\* the message with each placeholder of a set variable replaced by its value
Substituted(message, variables) ==
    Concat([i \in 1..Len(PiecesOf(message)) |-> Emitted(PiecesOf(message)[i], variables)])

\* the positions of the message nodes on the path
MessageVisits ==
    SelectSeq([i \in 1..Len(execution_path) |-> i],
              LAMBDA i : execution_path[i].node_type = "message")

(* C24: a message node replaces each {name} by the value an input node      *)
(* visited earlier on the same walk stored under name, and leaves the       *)
(* placeholder of a variable not set at that point unchanged; variables,    *)
(* execution_path and response_parts start empty on every execute_flow.     *)
C24_PlaceholdersSubstituted ==
    /\ \A message \in {PrixQ, QThenZ, NoPlaceholder} :
          Concat([i \in 1..Len(PiecesOf(message)) |-> Written(PiecesOf(message)[i])]) = message
    /\ Walked =>
          /\ walk.outcome = "executed"
          /\ execution_path
                 = [i \in 1..Len(nodes) |-> [node_id |-> i, node_type |-> nodes[i].node_type]]
          /\ walk.context.variables = VariablesBefore(Len(nodes) + 1)
          /\ walk.context.response_parts
                 = [m \in 1..Len(MessageVisits) |->
                       Substituted(nodes[MessageVisits[m]].config.message,
                                   VariablesBefore(MessageVisits[m]))]
          /\ walk.ret.variables = walk.context.variables

\* q is set before the message, z after it: {q} is replaced, {z} is left
C24_SetBeforeAndAfter ==
    /\ walk.outcome = "executed"
    /\ [i \in 1..Len(nodes) |-> nodes[i].config.variable] = <<VarQ, UserInput, VarZ>>
    /\ nodes[2].config.message = QThenZ
    /\ walk.context.user_message = MsgBonjour
    /\ walk.context.response_parts = <<MsgBonjour \o <<"{", "z", "}">> >>
    /\ DOMAIN walk.context.variables = {VarQ, VarZ}

-----------------------------------------------------------------------------
(* Properties of the flow tables *)

\* the flow_id of the node of an id in a FlowNode table, 0 when it has none
FlowIn(table, node_id) ==
    IF GetRow(table, node_id).id = 0 THEN 0 ELSE GetRow(table, node_id).flow_id

(* C11: after every operation of the flow editor each NodeConnection joins  *)
(* two nodes of the same flow, and no FlowNode changes its flow_id.         *)
C11_ConnectionsWithinOneFlow ==
    [][/\ \A j \in 1..Len(conns') :
             /\ FlowIn(nodes', conns'[j].source_node_id) # 0
             /\ FlowIn(nodes', conns'[j].target_node_id)
                    = FlowIn(nodes', conns'[j].source_node_id)
       /\ \A n \in 1..MaxNodes :
             FlowIn(nodes, n) # 0 /\ FlowIn(nodes', n) # 0
                 => FlowIn(nodes', n) = FlowIn(nodes, n)
      ]_vars

(* C27: after any sequence of operations of the flow editor, the            *)
(* source_node_id and the target_node_id of every stored NodeConnection are *)
(* ids of existing FlowNodes.                                               *)
C27_ConnectionsReferToNodes ==
    \A j \in 1..Len(conns) :
        /\ GetRow(nodes, conns[j].source_node_id).id # 0
        /\ GetRow(nodes, conns[j].target_node_id).id # 0

-----------------------------------------------------------------------------
(* Properties of the bot identity *)

\* the table holds rows, and all of them belong to one user
OnlyRowsOf(user_id) ==
    /\ settings # <<>>
    /\ \A i \in 1..Len(settings) : settings[i].user_id = user_id

(* C12: when the only Settings rows are those of a user A, get_bot_info for *)
(* another user B answers with the defaults (there is no global row), from  *)
(* the database and from the cache alike: neither the name nor the          *)
(* description of A's row is returned.                                      *)
C12_NoForeignIdentity ==
    \A a \in Users : \A b \in Users \ {a} :
        ( /\ lookup.source \in {"database", "cache"}
          /\ lookup.user_id = b
          /\ OnlyRowsOf(a) )
        => lookup.info = DefaultBotData

(* C13: the identity the chatbot route resolves for a request of user U is  *)
(* read from U's own row, else from the global row, else from the first row *)
(* of the table, else it is the default 'Assistant'.                        *)
C13_OwnRowFirst ==
    identity.user_id # 0 =>
        LET row == SettingsFor(settings, identity.user_id)
        IN  /\ identity.info.name =
                  IF row.id = 0 THEN "Assistant" ELSE Or(row.bot_name, "Assistant")
            /\ row.id # 0 /\ row.bot_description # ""
                  => identity.info.description = row.bot_description

(* C14: once general_settings has committed a new bot_name, a get_bot_info  *)
(* call whose Settings query succeeds returns the name stored in the table  *)
(* at the time of the call, never a name cached before the write.           *)
C14_FreshAfterWrite ==
    lookup.after_write /\ lookup.source \in {"database", "cache"}
        => lookup.info.name = BotData(SettingsFor(settings, lookup.user_id)).name

-----------------------------------------------------------------------------
(* Properties of the Response Manager *)

\* the call just answered ran both of its queries
Asked == matched.ret.kind # "none" /\ ~matched.quick_raises /\ ~matched.template_raises

\* the trigger list stored in a row
TriggersOfRow(i) == TriggerList(default_messages[i].triggers)

\* what a trigger adds to the total: 1 when its normalized form is a substring
\* of the message, otherwise 0.7 * matching words / trigger words
Contribution(message, trigger) ==
    IF Contains(normalize_text(trigger), message) THEN One
    ELSE Ratio(7 * Cardinality({w \in Words(normalize_text(trigger)) : w \in Words(message)}),
               10 * Cardinality(Words(normalize_text(trigger))))

RECURSIVE SumOfContributions(_, _, _)
SumOfContributions(message, triggers, n) ==
    IF n = 0 THEN Zero
    ELSE Plus(SumOfContributions(message, triggers, n - 1),
              Contribution(message, triggers[n]))

(* C15: the score of a row is in [0, 1], is 0 for an empty trigger list,    *)
(* and is the mean over the triggers, capped at 1, of 1.0 for a trigger     *)
(* whose normalized form is a substring of the message and of               *)
(* 0.7 * matching words / trigger words for any other trigger.              *)
C15_ScoreIsCappedMean ==
    Asked =>
        \A i \in 1..Len(matched.scores) :
            LET message == normalize_text(matched.message)
                triggers == TriggersOfRow(i)
                score == matched.scores[i]
            IN  /\ ~Greater(Zero, score) /\ ~Greater(score, One)
                /\ triggers = <<>> => score = Zero
                /\ triggers # <<>> =>
                      score = Minimum(DividedBy(SumOfContributions(message, triggers,
                                                                   Len(triggers)),
                                                Len(triggers)), One)

\* a row with a trigger found as a phrase and a trigger found by one word of two
C15_PhraseAndWordScore ==
    /\ Asked
    /\ matched.message = MsgHorairesOuverture
    /\ \E i \in 1..Len(matched.scores) :
          /\ TriggersOfRow(i) = <<Horaires, HeuresOuverture>>
          /\ matched.scores[i] = Ratio(27, 40)

\* the table holds the one quick response of the opening hours, and the
\* question about the opening hours was just asked
OpeningHoursAsked ==
    /\ Asked
    /\ Len(default_messages) = 1
    /\ TriggersOfRow(1) = <<Horaires, HeuresOuverture>>
    /\ matched.message = MsgHeures

(* C16 as stated: with the quick response of triggers 'horaires,heures      *)
(* ouverture', the message "Quelles sont vos heures d'ouverture ?" is       *)
(* answered with the content of that quick response and a confidence above  *)
(* 0.5.                                                                     *)
C16_OpeningHoursAnswered ==
    OpeningHoursAsked =>
        /\ matched.ret.kind = "dict"
        /\ matched.ret.type = "quick_response"
        /\ matched.ret.content = default_messages[1].content
        /\ Greater(matched.ret.confidence, Half)

(* C16, amended: for that quick response and that message the score is      *)
(* 0.35, which is not above 0.5, and find_matching_response returns None    *)
(* (no template pattern matches the message either).                        *)
C16_OpeningHoursScoreTooLow ==
    OpeningHoursAsked =>
        /\ matched.scores[1] = Ratio(7, 20)
        /\ matched.ret = NoneValue

\* the question about the opening hours asked with every template configured
C16_OpeningHoursAskedWithTemplates ==
    /\ OpeningHoursAsked
    /\ bot_responses.templates = SeqRange(TemplateTypes)

\* the rows whose score no other row exceeds
BestRows == {i \in 1..Len(matched.scores) :
                \A j \in 1..Len(matched.scores) :
                    ~Greater(matched.scores[j], matched.scores[i])}

\* the template families that are keys of essential_templates and match
MatchingFamilies ==
    {k \in 1..Len(TemplateTypes) :
        /\ bot_responses.exists
        /\ TemplateTypes[k] \in bot_responses.templates
        /\ PatternMatches(TemplateTypes[k], normalize_text(matched.message))}

(* C17: find_matching_response returns a quick response exactly when the    *)
(* best score exceeds 0.5, and then the best-scoring row, the first one on  *)
(* a tie; otherwise the template, with confidence 0.9, of the first family  *)
(* in the order greeting, farewell, thanks, help that matches and is a key  *)
(* of essential_templates; otherwise None.                                  *)
C17_QuickThenTemplateThenNone ==
    Asked =>
        LET quick == \E i \in 1..Len(matched.scores) : Greater(matched.scores[i], Half)
        IN  /\ quick =>
                  LET first == CHOOSE i \in BestRows : \A j \in BestRows : i <= j
                  IN  /\ matched.ret.kind = "dict"
                      /\ matched.ret.type = "quick_response"
                      /\ matched.ret.content = default_messages[first].content
                      /\ matched.ret.confidence = matched.scores[first]
            /\ ~quick /\ MatchingFamilies # {} =>
                  LET first == CHOOSE k \in MatchingFamilies :
                                   \A j \in MatchingFamilies : k <= j
                  IN  /\ matched.ret.kind = "dict"
                      /\ matched.ret.type = "template"
                      /\ matched.ret.template_type = TemplateTypes[first]
                      /\ matched.ret.content = TemplateContent(TemplateTypes[first])
                      /\ matched.ret.confidence = PatternScore
            /\ ~quick /\ MatchingFamilies = {} => matched.ret = NoneValue

\* two rows tie above 0.5 and the first one answered
C17_TieAnsweredByFirst ==
    /\ Asked
    /\ Len(matched.scores) = 2
    /\ matched.scores[1] = matched.scores[2]
    /\ Greater(matched.scores[1], Half)
    /\ default_messages[1].content # default_messages[2].content
    /\ matched.ret.kind = "dict"
    /\ matched.ret.content = default_messages[1].content

-----------------------------------------------------------------------------
(* Properties of normalize_text *)

(* C18: normalize_text is idempotent: applied to its own result it returns  *)
(* that result.                                                             *)
C18_NormalizeIdempotent ==
    Len(normalized) = 2 => normalized[2] = normalized[1]

\* a text that the first normalisation changes in case, accent, punctuation
\* and spacing, normalized twice
C18_NormalizedTwice ==
    /\ given = <<"B", "!", "Eacute", " ">>
    /\ normalized = << <<"b", " ", "e">>, <<"b", " ", "e">> >>

-----------------------------------------------------------------------------
(* Properties of the identity post-processing *)

\* the generic phrases the function that ran looks for
Denylisted ==
    IF corrected.by = "post_process_response" THEN SeqRange(generic_phrases)
    ELSE {Replacements(bot_info)[k].phrase : k \in 1..Len(Replacements(bot_info))}

(* C19: when the reply contains a generic self-identification phrase of the *)
(* deny list, the post-processed text contains the configured bot name and  *)
(* none of the phrases of the deny list.                                    *)
C19_IdentityForced ==
    ( /\ corrected.by # "none"
      /\ \E phrase \in Denylisted : Found(phrase, reply) )
    => /\ Contains(bot_info.name, corrected.text)
       /\ \A phrase \in Denylisted : ~Found(phrase, corrected.text)

-----------------------------------------------------------------------------
(* Properties of the provider call *)

\* the call met one of the errors: a malformed user_config, an unsupported
\* provider, an exception of the network, the SDK or the provider, a status
\* other than 200
ApiError ==
    \/ api.user_config.kind = "None"
    \/ api.user_config.provider \notin {"openai", "mistral", "claude"}
    \/ api.outcome \in {"import_error", "connection_error", "status_error",
                        "status_json_message", "status_json_no_message",
                        "status_not_json", "status_invalid_json", "status_json_list"}

(* C20: make_api_call_with_user_keys and the adapters never raise; every    *)
(* error yields a dict with an 'error' key and no 'message' key, and only a *)
(* reply of the provider is post-processed.                                 *)
C20_ErrorsAreReturned ==
    api.called =>
        /\ api.ret.kind = "dict"
        /\ api.adapter.kind \in {"dict", "None"}
        /\ ApiError => /\ "error" \in DOMAIN api.ret.value
                       /\ "message" \notin DOMAIN api.ret.value
        /\ "identity_corrected" \in DOMAIN api.ret.value =>
               /\ api.adapter.kind = "dict"
               /\ "message" \in DOMAIN api.adapter.value
               /\ ~ApiError

\* Mistral answered with an error status and a body that is not the JSON its
\* Content-Type announces
C20_MistralStatusInvalidJson ==
    /\ api.called
    /\ api.user_config.provider = "mistral"
    /\ api.outcome = "status_invalid_json"
    /\ api.adapter = ErrorDict("JSONDecodeError")
    /\ api.ret = api.adapter

-----------------------------------------------------------------------------
(* The chat route *)

(* C21: when the provider call fails on the last-resort path of             *)
(* /api/message, the reply carries the failure as a chat message and its    *)
(* HTTP status is not 500.                                                  *)
C21_ProviderFailureNot500 ==
    "api_error" \in DOMAIN answered.body =>
        /\ "message" \in DOMAIN answered.body
        /\ answered.status # 500

\* the entries a session with n exchanges holds: the last 20, oldest first
RecentExchanges(n) ==
    LET kept == IF n > HistoryLimit THEN HistoryLimit ELSE n
    IN  [i \in 1..kept |-> n - kept + i]

\* a history holds at most 20 entries, the most recent exchanges in arrival order
HistoryIsRecent(history, exchanges) ==
    /\ Len(history) <= HistoryLimit
    /\ [i \in 1..Len(history) |-> history[i].exchange] = RecentExchanges(exchanges)

(* C29: conversation_history holds at most 20 entries, the most recent      *)
(* exchanges with the provider in arrival order; build_system_prompt is     *)
(* given the last 5 entries only; a request answered by a flow, by a        *)
(* configured response or by an error appends nothing.                      *)
C29_HistoryBounded ==
    /\ HistoryIsRecent(conversation_history, routed.user_keys)
    /\ [][/\ HistoryIsRecent(conversation_history', routed'.user_keys)
          /\ answered'.context.called =>
                 /\ Len(answered'.context.conversation_history) <= ContextWindow
                 /\ answered'.context.conversation_history
                        = LastOf(conversation_history, ContextWindow)
          /\ ModeOf(answered') # "user_keys" =>
                 conversation_history' = conversation_history
          /\ ModeOf(answered') = "user_keys" /\ routed' # routed =>
                 /\ conversation_history' # <<>>
                 /\ conversation_history'[Len(conversation_history')].response
                        = StoredResponse(answered'.body.message)]_vars

\* the 22nd exchange has pushed the two oldest entries out, after replies of a flow and of the provider's failure
C29_HistoryTruncated ==
    /\ routed.user_keys = HistoryLimit + 2
    /\ routed.total = routed.user_keys + MaxOtherReplies
    /\ Len(conversation_history) = HistoryLimit
    /\ conversation_history[1].exchange = 3
    /\ answered.context.called
    /\ Len(answered.context.conversation_history) = ContextWindow

(* C30: every request /api/message routes is counted by the Decision        *)
(* Engine: total_requests is the number of routed requests and the counters *)
(* per source are the numbers of replies with mode flow, configured and     *)
(* user_keys.                                                               *)
C30_EveryRequestCounted ==
    /\ stats.total_requests = routed.total
    /\ stats.flow_responses = routed.flow
    /\ stats.configured_responses = routed.configured
    /\ stats.api_responses = routed.user_keys

-----------------------------------------------------------------------------
(* The quick-response cache *)

\* what initialize_cache would load from the DefaultMessage table as it is now
FreshCache == LoadResponses(<<>>, default_messages)

(* C28: get_relevant_responses never answers from a responses_cache loaded  *)
(* more than CACHE_TTL seconds ago: once the TTL has elapsed since          *)
(* last_refresh a read whose queries succeed reloads the triggers, so that  *)
(* a cache older than the TTL never differs from the DefaultMessage table.  *)
C28_CacheWithinTTL ==
    served.asked /\ ~served.raised /\ clock - last_refresh > CACHE_TTL
        => responses_cache = FreshCache

-----------------------------------------------------------------------------
(* The system prompt *)

(* C22: when check_personal_questions reports a personal question with      *)
(* confidence 0.8 or more, the enriched system prompt is the identity block *)
(* followed by the exact-response instruction and nothing else.             *)
C22_PersonalShortCircuits ==
    /\ built.called
    /\ ~built.analysis.is_simple
    /\ built.personal # NoneValue
    /\ ~Greater(Ratio(8, 10), built.personal.confidence)
    => /\ Len(built.ret.prompts.system) = 2
       /\ built.ret.prompts.system[1].block = "identity"
       /\ built.ret.prompts.system[2]
              = Section("exact_response", <<built.personal.direct_response>>)

(* C23: 'Explique-moi la photosynthèse' is classified at complexity 2 or    *)
(* more, both by the analysis that gates the lookups and in the complexity  *)
(* of the prompt metadata.                                                  *)
C23_PhotosynthesisComplex ==
    built.called /\ built.message = MsgPhotosynthese
    => /\ built.analysis.estimated_complexity >= 2
       /\ built.ret.metadata.complexity >= 2

-----------------------------------------------------------------------------
(* The knowledge search *)

(* C25: the relevance_score of search_knowledge counts every returned item  *)
(* of the three categories, so has_knowledge is true whenever one of the    *)
(* three result lists is not empty, also when only response rules matched.  *)
C25_AnyResultIsKnowledge ==
    /\ searched.called
    /\ \/ searched.results.faqs # <<>>
       \/ searched.results.rules # <<>>
       \/ searched.results.documents # <<>>
    => searched.results.has_knowledge

=============================================================================
